---- MODULE Spec2Model ----
(***************************************************************************)
(* Path-chain router of alrusov/rest.                                      *)
(*                                                                         *)
(*   path.Chains (v4)            Prepare / Find over a declared parameter  *)
(*                               record, with default and tail-enabled     *)
(*                               chains.                                   *)
(*   pathparser.Chains (locked)  NewChain / Add / Prepare / Do, binding    *)
(*                               into caller-supplied sinks.               *)
(*                                                                         *)
(* Sequences are 1-based here; the Go code is 0-based.  Message indices    *)
(* are therefore one higher than the ones the Go code prints.              *)
(***************************************************************************)
EXTENDS Integers, Sequences, FiniteSets, TLC

(***************************************************************************)
(* Bounds of the model.                                                    *)
(***************************************************************************)
\* Largest number of slots in Chains.Chains (nil slots included).
MaxChains == 3
\* Largest number of segments of a path given to Find / Do.
MaxPath == 2
\* Largest number of chains registered with pathparser.Chains.NewChain.
MaxNewChains == 1
\* Largest number of tokens registered with pathparser.Chains.Add, all chains
\* together.
MaxAdds == 2

(***************************************************************************)
(* Flags and variable names of package path.                               *)
(***************************************************************************)
FlagChainDefault == "FlagChainDefault"
FlagChainEnableTail == "FlagChainEnableTail"
VarIgnore == "_"

StatusNotFound == 404
StatusInternalServerError == 500

(***************************************************************************)
(* Path segments and token expressions.  The regular expressions are       *)
(* modelled by the language they accept over the segments of the model.    *)
(***************************************************************************)
Segments == {"24", "active"}

\* regexp.Compile(`^(` + Expr + `)$`): the anchored form is what is compiled.
\* "[\\d+" has an unclosed character class.
CompilesAnchored(expr) == expr # "[\\d+"

\* re.MatchString(seg) for the compiled ^(expr)$.
Matches(expr, seg) ==
    CASE expr = "" -> seg = ""
      [] expr = "\\d+" -> seg = "24"
      [] expr = "active|blocked" -> seg = "active"
      [] OTHER -> FALSE

(***************************************************************************)
(* Parameter record types.  PathParamsPattern is one of                    *)
(*   "nil"                no pattern given (Prepare substitutes struct{}{}) *)
(*   "pathParamsPattern"  struct { Tp string; ID uint64; Status string;    *)
(*                                 F float64 }                             *)
(*   "test"               a string value, which is no struct               *)
(* PathParamsType is "nil" until Prepare sets it, then the type of the     *)
(* pattern: "struct{}", "pathParamsPattern" or "string".                   *)
(***************************************************************************)
\* reflect.Type.FieldByName(name) and the Kind of the field; "none" when the
\* type has no such field.
FieldKind(ppt, name) ==
    IF ppt # "pathParamsPattern" THEN "none"
    ELSE CASE name = "Tp" -> "string"
           [] name = "ID" -> "uint64"
           [] name = "Status" -> "string"
           [] name = "F" -> "float64"
           [] OTHER -> "none"

\* reflect.New(PathParamsType).Elem(): the zero-valued record.
ZeroParams == [Tp |-> "", ID |-> 0, Status |-> "", F |-> 0]

\* The record Find returns when it never assigns pathParams (interface nil).
\* "nil" is kept in a record of the same shape so that results stay comparable.
NilParams == [Tp |-> "nil", ID |-> -1, Status |-> "nil", F |-> -1]

\* misc.Iface2IfacePtr(seg, &field): whether the conversion succeeds.
ConvertOK(seg, kind) ==
    CASE kind = "string" -> TRUE
      [] kind = "uint64" -> seg = "24"
      [] OTHER -> FALSE

\* misc.Iface2IfacePtr(seg, &field): the value stored on success.
ConvertValue(seg, kind) ==
    IF kind = "string" THEN seg ELSE 24

(***************************************************************************)
(* Tokens, chains and the inputs the model draws them from.                *)
(***************************************************************************)
\* Token{Expr, VarName}; re is the compiled matcher (set = FALSE is nil).
Tok(e, v) == [Expr |-> e, VarName |-> v, re |-> [set |-> FALSE, src |-> ""]]

\* The chain declarations a Chains literal is built from.  A nil slot is a
\* chain with nil = TRUE.
ChainPool ==
    << \* legal chains
       [nil |-> FALSE, Flags |-> {},
        Tokens |-> <<Tok("\\d+", "ID"), Tok("active|blocked", "Status")>>],
       [nil |-> FALSE, Flags |-> {},
        Tokens |-> <<Tok("\\d+", "ID")>>],
       [nil |-> FALSE, Flags |-> {FlagChainEnableTail},
        Tokens |-> <<Tok("active|blocked", "Status")>>],
       [nil |-> FALSE, Flags |-> {},
        Tokens |-> <<Tok("", "Tp")>>],
       [nil |-> FALSE, Flags |-> {FlagChainDefault},
        Tokens |-> <<Tok("\\d+", "ID")>>],
       [nil |-> FALSE, Flags |-> {FlagChainDefault},
        Tokens |-> <<Tok("active|blocked", VarIgnore), Tok("\\d+", "ID")>>],
       \* an illegal chain: its second token names no field
       [nil |-> FALSE, Flags |-> {},
        Tokens |-> <<Tok("\\d+", "ID"), Tok("\\d+", "X")>>],
       \* a nil slot left by conditional registration
       [nil |-> TRUE, Flags |-> {}, Tokens |-> <<>>] >>

\* Further illegal declarations, one for each kind of configuration error
\* and one with two of them.
IllegalPool ==
    << [nil |-> FALSE, Flags |-> {}, Tokens |-> <<>>],
       [nil |-> FALSE, Flags |-> {}, Tokens |-> <<Tok("\\d+", "")>>],
       [nil |-> FALSE, Flags |-> {}, Tokens |-> <<Tok("\\d+", "F")>>],
       [nil |-> FALSE, Flags |-> {},
        Tokens |-> <<Tok("", "Tp"), Tok("\\d+", "ID")>>],
       [nil |-> FALSE, Flags |-> {}, Tokens |-> <<Tok("[\\d+", "ID")>>],
       [nil |-> FALSE, Flags |-> {FlagChainDefault},
        Tokens |-> <<Tok("\\d+", ""), Tok("[\\d+", VarIgnore)>>] >>

\* Declarations around the tail flag: tail-enabled chains, with and without
\* the default flag, among chains of one, two and three tokens.
TailPool ==
    << [nil |-> FALSE, Flags |-> {},
        Tokens |-> <<Tok("\\d+", "ID"), Tok("\\d+", VarIgnore),
                     Tok("\\d+", VarIgnore)>>],
       [nil |-> FALSE, Flags |-> {FlagChainDefault, FlagChainEnableTail},
        Tokens |-> <<Tok("active|blocked", "Status")>>],
       [nil |-> FALSE, Flags |-> {FlagChainEnableTail},
        Tokens |-> <<Tok("\\d+", "ID")>>],
       [nil |-> FALSE, Flags |-> {FlagChainDefault},
        Tokens |-> <<Tok("\\d+", VarIgnore)>>],
       [nil |-> FALSE, Flags |-> {},
        Tokens |-> <<Tok("active|blocked", "Status"), Tok("\\d+", "ID")>>] >>

\* Declarations around the binding: tokens that share a field, a pattern
\* whose segments do not convert to its field, a discard token, a tail.
BindPool ==
    << [nil |-> FALSE, Flags |-> {},
        Tokens |-> <<Tok("\\d+", "Tp"), Tok("active|blocked", "Tp")>>],
       [nil |-> FALSE, Flags |-> {},
        Tokens |-> <<Tok("\\d+", "ID"), Tok("active|blocked", "Status")>>],
       [nil |-> FALSE, Flags |-> {},
        Tokens |-> <<Tok("active|blocked", "ID")>>],
       [nil |-> FALSE, Flags |-> {FlagChainEnableTail},
        Tokens |-> <<Tok("\\d+", "ID")>>],
       [nil |-> FALSE, Flags |-> {},
        Tokens |-> <<Tok("", "Tp")>>],
       [nil |-> FALSE, Flags |-> {},
        Tokens |-> <<Tok("\\d+", VarIgnore), Tok("active|blocked", "Status")>>] >>

\* The declarations of the set several threads call Find on: a chain that
\* binds two fields, one whose segments do not convert, a tail-enabled one.
ThreadsPool == SubSeq(BindPool, 2, 4)

\* A *Chain: id stands for the pointer (the slot the chain was registered in).
MkChain(i, decl) ==
    [id |-> i, nil |-> decl.nil, Flags |-> decl.Flags, Tokens |-> decl.Tokens]

\* The Chains.Chains list built from the declarations pool[f[1]], pool[f[2]], ...
ChainList(pool, f) == [i \in DOMAIN f |-> MkChain(i, pool[f[i]])]

\* The set-level declarations of a Chains value.
GoodHeader ==
    [PathParamsPattern |-> "pathParamsPattern",
     RequestPattern |-> "nil", RequestObjectName |-> ""]

Headers ==
    { GoodHeader,
      [PathParamsPattern |-> "nil", RequestPattern |-> "nil", RequestObjectName |-> ""],
      [PathParamsPattern |-> "test", RequestPattern |-> "nil", RequestObjectName |-> ""],
      [PathParamsPattern |-> "pathParamsPattern",
       RequestPattern |-> "struct", RequestObjectName |-> ""],
      [PathParamsPattern |-> "pathParamsPattern",
       RequestPattern |-> "struct", RequestObjectName |-> "o1"] }

\* The segment lists given to Find.
Paths == UNION { [1..n -> Segments] : n \in 0..MaxPath }

(***************************************************************************)
(* State.                                                                  *)
(***************************************************************************)
VARIABLES
    \* path.Chains (v4)
    hdr,             \* PathParamsPattern, RequestPattern, RequestObjectName
    Chains,          \* Chains.Chains, the list of *Chain
    prepared,        \* Chains.prepared
    PathParamsType,  \* Chains.PathParamsType
    \* what the last call returned
    lastOp,          \* "none", "Prepare" or "Find"
    lastPath,        \* the segments given to the last Find
    prepErr,         \* the messages of the error of the last Prepare
    res,             \* (matched, pathParams, code, err) of the last Find
    inflight,        \* a Find of another thread between its steps
    clone,           \* the *Chains a Clone of the set returned
    \* pathparser.Chains (lock-guarded)
    ppList,          \* Chains.list, the list of *chain
    ppPrepared,      \* Chains.prepared
    knownVars,       \* Chains.knownVars
    \* what the last call on it returned
    ppOp,            \* "none", "NewChain", "Add", "Prepare" or "Do"
    ppRes,           \* (idx, found, err) of the last call and the sinks after it
    ppCall,          \* the path and the Vars map given to it, if it was a Do
    \* rest.ProcOptions, one request
    Method,          \* proc.R.Method, "" while no request is being served
    calls,           \* the hooks and database calls do made, in order
    reply,           \* (result, code, err) do returned
    \* rest.ProcOptions.checkFields, one call
    cf,              \* its arguments, and proc.Fields and the rows after it
    \* rest.ByRow, one Do
    br,              \* the fields of the ByRow and the rows not yet read
    written,         \* what Do has written to br.writer, in order
    \* the shaper of one Info
    shaperQueue,     \* info.shaperQueue, the channel of *shaper
    requests,        \* the goroutines in ProcOptions.rest, each with its shaper
    workers          \* the goroutines ShaperWorkers started

pathVars ==
    <<hdr, Chains, prepared, PathParamsType, lastOp, lastPath, prepErr, res,
      inflight, clone>>

ppVars == <<ppList, ppPrepared, knownVars, ppOp, ppRes, ppCall>>

restVars == <<Method, calls, reply>>

checkVars == <<cf>>

byRowVars == <<br, written>>

shaperVars == <<shaperQueue, requests, workers>>

handlerVars == <<restVars, checkVars, byRowVars, shaperVars>>

(***************************************************************************)
(* misc.Messages: the messages added so far; Error() is nil iff there are  *)
(* none.  A message is kept as the chain and token it is about (0 when it  *)
(* is about neither) and its text.                                         *)
(***************************************************************************)
Msg(ci, ti, text) == [ci |-> ci, ti |-> ti, text |-> text]

(***************************************************************************)
(* Chains.Prepare                                                          *)
(***************************************************************************)
\* StructType(v): the type of v and whether it is a struct.
StructType(v) ==
    CASE v = "struct{}{}" -> [t |-> "struct{}", ok |-> TRUE]
      [] v = "pathParamsPattern" -> [t |-> "pathParamsPattern", ok |-> TRUE]
      [] OTHER -> [t |-> "string", ok |-> FALSE]

\* Removal of the nil chains.
Compact(list) == SelectSeq(list, LAMBDA c : ~c.nil)

\* Mutant of TokenCheck: an empty expression is accepted in any chain.
TokenCheckEmptyExprAnywhere(ppt, chain, ti) ==
    LET token == chain.Tokens[ti]
        k == FieldKind(ppt, token.VarName)
    IN  IF token.VarName = "" THEN "empty var name"
        ELSE IF token.VarName # VarIgnore /\ k = "none"
            THEN "field not found in PathParamsPattern"
        ELSE IF token.VarName # VarIgnore /\ k \notin {"string", "uint64"}
            THEN "field is not a string or integer"
        ELSE IF ~CompilesAnchored(token.Expr) THEN "error parsing regexp"
        ELSE ""

\* The analysis of one token: the text of the message it adds, "" when the
\* token is accepted and its expression compiled.
TokenCheck(ppt, chain, ti) ==
    LET token == chain.Tokens[ti]
        k == FieldKind(ppt, token.VarName)
    IN  IF token.VarName = "" THEN "empty var name"
        ELSE IF token.VarName # VarIgnore /\ k = "none"
            THEN "field not found in PathParamsPattern"
        ELSE IF token.VarName # VarIgnore /\ k \notin {"string", "uint64"}
            THEN "field is not a string or integer"
        ELSE IF token.Expr = "" /\ Len(chain.Tokens) > 1
            THEN "an empty expression is allowed only in a chain with one element"
        ELSE IF ~CompilesAnchored(token.Expr) THEN "error parsing regexp"
        ELSE ""

\* Mutant of ChainMsgs: the analysis stops at the first illegal chain.
ChainMsgsFailFast(ppt, list) ==
    LET bad == { ci \in 1..Len(list) :
                   \/ Len(list[ci].Tokens) = 0
                   \/ \E t \in 1..Len(list[ci].Tokens) :
                         TokenCheck(ppt, list[ci], t) # "" }
    IN  IF bad = {} THEN {}
        ELSE LET ci == CHOOSE c \in bad : \A d \in bad : c <= d
             IN  IF Len(list[ci].Tokens) = 0
                 THEN {Msg(ci, 0, "chain is empty")}
                 ELSE { Msg(ci, ti, TokenCheck(ppt, list[ci], ti)) :
                          ti \in { t \in 1..Len(list[ci].Tokens) :
                                     TokenCheck(ppt, list[ci], t) # "" } }

\* The messages the analysis of a compacted chain list adds.
ChainMsgs(ppt, list) ==
    { Msg(ci, 0, "chain is empty") :
        ci \in { c \in 1..Len(list) : Len(list[c].Tokens) = 0 } }
    \cup
    UNION { { Msg(ci, ti, TokenCheck(ppt, list[ci], ti)) :
                ti \in { t \in 1..Len(list[ci].Tokens) :
                           TokenCheck(ppt, list[ci], t) # "" } } :
            ci \in 1..Len(list) }

\* chain.Tokens[ti].re = re, for every token the analysis accepts.
CompileChain(ppt, chain) ==
    [chain EXCEPT !.Tokens =
        [ti \in 1..Len(chain.Tokens) |->
            IF TokenCheck(ppt, chain, ti) = ""
            THEN [chain.Tokens[ti] EXCEPT
                    !.re = [set |-> TRUE, src |-> chain.Tokens[ti].Expr]]
            ELSE chain.Tokens[ti]]]

\* Mutant of Less: the default flag is not compared.
LessIgnoringDefault(list, i, j) ==
    LET ln1 == Len(list[i].Tokens)
        ln2 == Len(list[j].Tokens)
    IN  IF ln1 # ln2 THEN ln1 < ln2
        ELSE IF list[i].Tokens[1].Expr = "" THEN list[j].Tokens[1].Expr # ""
        ELSE i < j

\* Mutant of Less: chains of equal length keep their order, whatever their
\* first pattern.
LessIgnoringEmptyExpr(list, i, j) ==
    LET di == FlagChainDefault \in list[i].Flags
        dj == FlagChainDefault \in list[j].Flags
        ln1 == Len(list[i].Tokens)
        ln2 == Len(list[j].Tokens)
    IN  IF di # dj THEN ~di
        ELSE IF ln1 # ln2 THEN ln1 < ln2
        ELSE i < j

\* Chains.Less(i, j) on a list of analysed chains.
Less(list, i, j) ==
    LET di == FlagChainDefault \in list[i].Flags
        dj == FlagChainDefault \in list[j].Flags
        ln1 == Len(list[i].Tokens)
        ln2 == Len(list[j].Tokens)
    IN  IF di # dj THEN ~di
        ELSE IF ln1 # ln2 THEN ln1 < ln2
        ELSE IF list[i].Tokens[1].Expr = "" THEN list[j].Tokens[1].Expr # ""
        ELSE i < j

\* Chains.Swap(i, j).
Swap(list, i, j) == [list EXCEPT ![i] = list[j], ![j] = list[i]]

\* The inner loop of the insertion sort: for j > a && Less(j, j-1) { Swap }.
RECURSIVE InsertDown(_, _)
InsertDown(list, j) ==
    IF j > 1 /\ Less(list, j, j - 1)
    THEN InsertDown(Swap(list, j, j - 1), j - 1)
    ELSE list

RECURSIVE SortFrom(_, _)
SortFrom(list, i) ==
    IF i > Len(list) THEN list ELSE SortFrom(InsertDown(list, i), i + 1)

\* sort.Sort sorts a range of at most maxInsertion elements by insertion.
MaxInsertion == 12

\* The inner loop of insertionSort on the positions lo..hi.
RECURSIVE InsertDownTo(_, _, _)
InsertDownTo(list, lo, j) ==
    IF j > lo /\ Less(list, j, j - 1)
    THEN InsertDownTo(Swap(list, j, j - 1), lo, j - 1)
    ELSE list

RECURSIVE InsertionSortFrom(_, _, _, _)
InsertionSortFrom(list, lo, hi, i) ==
    IF i > hi THEN list
    ELSE InsertionSortFrom(InsertDownTo(list, lo, i), lo, hi, i + 1)

\* insertionSort on the positions lo..hi.
insertionSort(list, lo, hi) == InsertionSortFrom(list, lo, hi, lo + 1)

\* order2: the positions x, y in the order Less gives them, and the swaps.
order2(list, x, y, swaps) ==
    IF Less(list, y, x) THEN <<y, x, swaps + 1>> ELSE <<x, y, swaps>>

\* median: the position of the median of three, and the swaps it took.
median(list, x, y, z) ==
    LET s1 == order2(list, x, y, 0)
        s2 == order2(list, s1[2], z, s1[3])
        s3 == order2(list, s1[1], s2[1], s2[3])
    IN  [pivot |-> s3[2], swaps |-> s3[3]]

\* choosePivot on lo..hi, for a range of 8 to 49 elements: the median of the
\* elements at the quarters; the range looks increasing when no swap was
\* needed.
choosePivot(list, lo, hi) ==
    LET l == hi - lo + 1
        m == median(list, lo + (l \div 4), lo + (l \div 4) * 2,
                    lo + (l \div 4) * 3)
    IN  [pivot |-> m.pivot, increasing |-> m.swaps = 0]

\* partialInsertionSort on a range of fewer than 50 elements: it moves
\* nothing and reports whether the range is already in order.
partialInsertionSort(list, lo, hi) ==
    \A i \in (lo + 1)..hi : ~Less(list, i, i - 1)

\* for i <= j && data.Less(i, a) { i++ }
RECURSIVE ScanUp(_, _, _, _)
ScanUp(list, a, i, j) ==
    IF i <= j /\ Less(list, i, a) THEN ScanUp(list, a, i + 1, j) ELSE i

\* for i <= j && !data.Less(j, a) { j-- }
RECURSIVE ScanDown(_, _, _, _)
ScanDown(list, a, i, j) ==
    IF i <= j /\ ~Less(list, j, a) THEN ScanDown(list, a, i, j - 1) ELSE j

\* The loop of partition after its first exchange.
RECURSIVE PartitionLoop(_, _, _, _)
PartitionLoop(list, a, i, j) ==
    LET i1 == ScanUp(list, a, i, j)
        j1 == ScanDown(list, a, i1, j)
    IN  IF i1 > j1
        THEN [list |-> Swap(list, j1, a), mid |-> j1]
        ELSE PartitionLoop(Swap(list, i1, j1), a, i1 + 1, j1 - 1)

\* partition of lo..hi around the element at pivot: the list after it and
\* the final position of the pivot.
partition(list, lo, hi, pivot) ==
    LET moved == Swap(list, lo, pivot)
        i0 == ScanUp(moved, lo, lo + 1, hi)
        j0 == ScanDown(moved, lo, i0, hi)
    IN  IF i0 > j0
        THEN [list |-> Swap(moved, j0, lo), mid |-> j0]
        ELSE PartitionLoop(Swap(moved, i0, j0), lo, i0 + 1, j0 - 1)

\* pdqsort on a whole list of at most MaxInsertion + 1 elements: by
\* insertion up to MaxInsertion; on one more, nothing when the list is found
\* in order, else one partition and an insertion sort of each side.
pdqsort(list) ==
    LET n == Len(list)
        p == choosePivot(list, 1, n)
        q == partition(list, 1, n, p.pivot)
    IN  IF n <= MaxInsertion THEN insertionSort(list, 1, n)
        ELSE IF p.increasing /\ partialInsertionSort(list, 1, n) THEN list
        ELSE insertionSort(insertionSort(q.list, 1, q.mid - 1), q.mid + 1, n)

\* sort.Sort(chains): on at most 12 elements it is an insertion sort.
SortChains(list) ==
    IF Len(list) <= MaxInsertion THEN SortFrom(list, 2) ELSE pdqsort(list)

\* Chains.Prepare past its "already prepared" guard: the fields it leaves and
\* the messages of its error.
PrepareBody(h, list, ppt) ==
    LET pat == IF h.PathParamsPattern = "nil" THEN "struct{}{}"
               ELSE h.PathParamsPattern
        h1 == [h EXCEPT !.PathParamsPattern = pat]
        st == StructType(pat)
        early(msgs) ==
            [hdr |-> h1, Chains |-> list, prepared |-> FALSE,
             PathParamsType |-> st.t, msgs |-> msgs]
    IN  IF ~st.ok
        THEN early({Msg(0, 0, "PathParamsPattern is not a struct")})
        ELSE IF h.RequestPattern # "nil" /\ h.RequestObjectName = ""
        THEN early({Msg(0, 0, "RequestObjectName not defined")})
        ELSE
        LET compact == Compact(list)
            msgs == ChainMsgs(st.t, compact)
            analysed == [ci \in 1..Len(compact) |->
                            CompileChain(st.t, compact[ci])]
        IN  IF msgs # {}
            THEN [hdr |-> h1, Chains |-> analysed, prepared |-> FALSE,
                  PathParamsType |-> st.t, msgs |-> msgs]
            ELSE [hdr |-> h1, Chains |-> SortChains(analysed),
                  prepared |-> TRUE, PathParamsType |-> st.t, msgs |-> {}]

\* Mutant of PrepareChains: the "already prepared" guard is missing.
PrepareChainsUnguarded(h, list, prep, ppt) == PrepareBody(h, list, ppt)

\* Chains.Prepare.
PrepareChains(h, list, prep, ppt) ==
    IF prep
    THEN [hdr |-> h, Chains |-> list, prepared |-> prep,
          PathParamsType |-> ppt, msgs |-> {Msg(0, 0, "already prepared")}]
    ELSE PrepareBody(h, list, ppt)

(***************************************************************************)
(* Chains.Find                                                             *)
(***************************************************************************)
\* Mutant of SkipChain: the test of the tail flag is inverted.
SkipChainTailInverted(chain, ln) ==
    Len(chain.Tokens) < ln /\ FlagChainEnableTail \in chain.Flags

\* The scan skips the chain: it has fewer tokens than there are segments and
\* is not tail-enabled.
SkipChain(chain, ln) ==
    Len(chain.Tokens) < ln /\ FlagChainEnableTail \notin chain.Flags

\* The scan ends at the chain: it has more tokens than there are segments.
StopScan(chain, ln) == Len(chain.Tokens) > ln

\* Every token's matcher accepts its segment (the chain is neither skipped
\* nor longer than the path, so every token has a segment).
Accepts(chain, path) ==
    \A i \in 1..Len(chain.Tokens) :
        /\ chain.Tokens[i].re.set
        /\ Matches(chain.Tokens[i].re.src, path[i])

\* The scan loop from position ci on: the position of the matched chain, 0
\* when the scan ends without one.
RECURSIVE ScanFrom(_, _, _)
ScanFrom(list, path, ci) ==
    IF ci > Len(list) THEN 0
    ELSE IF SkipChain(list[ci], Len(path)) THEN ScanFrom(list, path, ci + 1)
    ELSE IF StopScan(list[ci], Len(path)) THEN 0
    ELSE IF Accepts(list[ci], path) THEN ci
    ELSE ScanFrom(list, path, ci + 1)

\* The binding loop of the deferred function from token i on; acc is the
\* parameter record and the messages so far.
RECURSIVE BindFrom(_, _, _, _, _)
BindFrom(tokens, path, ppt, i, acc) ==
    IF i > Len(tokens) THEN acc
    ELSE IF tokens[i].VarName = VarIgnore
        THEN BindFrom(tokens, path, ppt, i + 1, acc)
    ELSE IF i > Len(path) THEN acc
    ELSE
    LET k == FieldKind(ppt, tokens[i].VarName)
    IN  IF ConvertOK(path[i], k)
        THEN BindFrom(tokens, path, ppt, i + 1,
                [acc EXCEPT !.pp[tokens[i].VarName] = ConvertValue(path[i], k)])
        ELSE BindFrom(tokens, path, ppt, i + 1,
                [acc EXCEPT !.msgs = @ \cup
                    {Msg(0, i, "cannot convert to " \o tokens[i].VarName)}])

\* A call that ends in a runtime panic returns nothing.
Panic ==
    [matched |-> 0, pathParams |-> NilParams, code |-> 0, err |-> {},
     fault |-> TRUE]

\* Mutant of FindDeferred: the fallback takes the first default chain of the
\* list.
FindDeferredFirstDefault(list, ppt, path, m) ==
    IF m = 0 /\ Len(list) = 0 THEN Panic
    ELSE IF m = 0 /\ FlagChainDefault \notin list[Len(list)].Flags
    THEN [matched |-> 0, pathParams |-> NilParams, code |-> StatusNotFound,
          err |-> {}, fault |-> FALSE]
    ELSE
    LET first == CHOOSE i \in 1..Len(list) :
                    /\ FlagChainDefault \in list[i].Flags
                    /\ \A k \in 1..(i - 1) : FlagChainDefault \notin list[k].Flags
        c == IF m = 0 THEN list[first] ELSE list[m]
        b == BindFrom(c.Tokens, path, ppt, 1, [pp |-> ZeroParams, msgs |-> {}])
    IN  [matched |-> IF b.msgs # {} THEN 0 ELSE c.id,
         pathParams |-> b.pp, code |-> 0, err |-> b.msgs, fault |-> FALSE]

\* The deferred function of Find, entered with the chain the body matched
\* (position m in the list, 0 for none).
FindDeferred(list, ppt, path, m) ==
    IF m = 0 /\ Len(list) = 0 THEN Panic
    ELSE IF m = 0 /\ FlagChainDefault \notin list[Len(list)].Flags
    THEN [matched |-> 0, pathParams |-> NilParams, code |-> StatusNotFound,
          err |-> {}, fault |-> FALSE]
    ELSE
    LET c == IF m = 0 THEN list[Len(list)] ELSE list[m]
        b == BindFrom(c.Tokens, path, ppt, 1, [pp |-> ZeroParams, msgs |-> {}])
    IN  [matched |-> IF b.msgs # {} THEN 0 ELSE c.id,
         pathParams |-> b.pp, code |-> 0, err |-> b.msgs, fault |-> FALSE]

\* Chains.Find(path): matched is the id of the chain returned, 0 for nil.
FindChains(list, prep, ppt, path) ==
    IF ppt = "nil" THEN Panic
    ELSE IF ~prep
    THEN [matched |-> 0, pathParams |-> NilParams,
          code |-> StatusInternalServerError,
          err |-> {Msg(0, 0, "not prepared")}, fault |-> FALSE]
    ELSE IF Len(path) = 0 /\ Len(list) = 0 THEN Panic
    ELSE IF /\ Len(path) = 0
            /\ Len(list[1].Tokens) = 1
            /\ list[1].Tokens[1].Expr = ""
    THEN FindDeferred(list, ppt, path, 1)
    ELSE FindDeferred(list, ppt, path, ScanFrom(list, path, 1))

(***************************************************************************)
(* pathparser.Chains, the lock-guarded variant built with NewChains,       *)
(* NewChain and Add.  Every method holds the mutex for its whole body, so  *)
(* each call is one atomic step.                                           *)
(***************************************************************************)
\* A token as Add stores it: no compiled matcher yet.
PPTok(e, d) == [expr |-> e, dest |-> d, re |-> [set |-> FALSE, src |-> ""]]

\* The (expr, dest) pairs given to Add; the last one has an empty dest.
AddPool ==
    << [expr |-> "\\d+", dest |-> "id"],
       [expr |-> "active|blocked", dest |-> "command"],
       [expr |-> "", dest |-> "command"],
       [expr |-> "[\\d+", dest |-> "id"],
       [expr |-> "\\d+", dest |-> ""] >>

\* The Vars maps given to Do: variable name -> kind of the value stored.
VarsPool ==
    { ("id" :> "*int") @@ ("command" :> "*string"),
      ("id" :> "*int"),
      ("id" :> "*int") @@ ("command" :> "*string") @@ ("gid" :> "*int"),
      ("id" :> "int") @@ ("command" :> "*string") }

\* The variables the pointers of a Vars map point to, before the call.
ZeroSinks == [id |-> 0, command |-> "", gid |-> 0]

\* regexp.Compile(`^` + expr + `$`) succeeds.
CompilesBare(expr) == expr # "[\\d+"

\* re.MatchString(seg) for re compiled from `^` + expr + `$`: without a group
\* the alternation splits into `^active` and `blocked$`.
MatchesBare(expr, seg) ==
    CASE expr = "" -> seg = ""
      [] expr = "\\d+" -> seg = "24"
      [] expr = "active|blocked" -> seg = "active"
      [] OTHER -> FALSE

\* Position of the expression in the byte order strings.Compare uses.
ExprOrder(expr) ==
    CASE expr = "" -> 0
      [] expr = "[\\d+" -> 1
      [] expr = "\\d+" -> 2
      [] expr = "active|blocked" -> 3
      [] OTHER -> 4

\* misc.Iface2IfacePtr(seg, sink) succeeds for a sink of the given kind.
SinkOK(seg, kind) ==
    CASE kind = "*string" -> TRUE
      [] kind = "*int" -> seg = "24"
      [] OTHER -> FALSE

\* The value it stores.
SinkValue(seg, kind) == IF kind = "*string" THEN seg ELSE 24

PPNoResult ==
    [idx |-> -1, found |-> FALSE, err |-> {}, sinks |-> ZeroSinks,
     fault |-> FALSE]

PPError(text) == [PPNoResult EXCEPT !.err = {Msg(0, 0, text)}]

RECURSIVE TokenCount(_, _)
\* The number of tokens of the chains from position ci on.
TokenCount(l, ci) ==
    IF ci > Len(l) THEN 0 ELSE Len(l[ci].tokens) + TokenCount(l, ci + 1)

\* Chains.NewChain: idx is the 0-based index of the new chain.
NewChainOn(l, prep) ==
    IF prep
    THEN [list |-> l, res |-> PPError("already prepared")]
    ELSE [list |-> Append(l, [tokens |-> <<>>]),
          res |-> [PPNoResult EXCEPT !.idx = Len(l)]]

\* Mutant of AddTo: the prepared flag is not tested.
AddToUnguarded(l, prep, known, chainIdx, expr, dest) ==
    IF chainIdx < 0 \/ chainIdx >= Len(l)
    THEN [list |-> l, knownVars |-> known, res |-> PPError("illegal idx")]
    ELSE IF dest = ""
    THEN [list |-> l, knownVars |-> known, res |-> PPError("empty dest")]
    ELSE [list |-> [l EXCEPT ![chainIdx + 1].tokens =
                                    Append(@, PPTok(expr, dest))],
          knownVars |-> known \cup {dest},
          res |-> PPNoResult]

\* Chains.Add: chainIdx is 0-based.
AddTo(l, prep, known, chainIdx, expr, dest) ==
    IF prep
    THEN [list |-> l, knownVars |-> known, res |-> PPError("already prepared")]
    ELSE IF chainIdx < 0 \/ chainIdx >= Len(l)
    THEN [list |-> l, knownVars |-> known, res |-> PPError("illegal idx")]
    ELSE IF dest = ""
    THEN [list |-> l, knownVars |-> known, res |-> PPError("empty dest")]
    ELSE [list |-> [l EXCEPT ![chainIdx + 1].tokens =
                                    Append(@, PPTok(expr, dest))],
          knownVars |-> known \cup {dest},
          res |-> PPNoResult]

\* The message the validation loop of Prepare adds for token ti, "" for none.
PPTokenCheck(chain, ti) ==
    LET token == chain.tokens[ti]
    IN  IF token.expr = "" /\ Len(chain.tokens) > 1
        THEN "an empty expression is allowed only in a chain of one element"
        ELSE IF ~CompilesBare(token.expr)
        THEN "error parsing regexp"
        ELSE ""

\* The messages Prepare collects: (ci, ti) are 1-based positions here.
PPChainMsgs(l) ==
    { Msg(ci, 0, "chain is empty") :
          ci \in { c \in 1..Len(l) : Len(l[c].tokens) = 0 } }
    \cup
    UNION { { Msg(ci, ti, PPTokenCheck(l[ci], ti)) :
                 ti \in { t \in 1..Len(l[ci].tokens) :
                            PPTokenCheck(l[ci], t) # "" } } :
            ci \in 1..Len(l) }

\* The tokens of the chain after the validation loop: token.re is assigned
\* for every token that reaches regexp.Compile (nil when it fails).
PPCompileChain(chain) ==
    [chain EXCEPT !.tokens =
        [ti \in 1..Len(chain.tokens) |->
            IF PPTokenCheck(chain, ti) = ""
            THEN [chain.tokens[ti] EXCEPT
                      !.re = [set |-> TRUE, src |-> chain.tokens[ti].expr]]
            ELSE chain.tokens[ti]]]

\* pathparser.Chains.Less (positions are 1-based here).
PPLess(l, i, j) ==
    LET ln1 == Len(l[i].tokens)
        ln2 == Len(l[j].tokens)
    IN  IF ln1 # ln2
        THEN ln1 < ln2
        ELSE ExprOrder(l[i].tokens[1].expr) < ExprOrder(l[j].tokens[1].expr)

RECURSIVE PPInsertDown(_, _)
PPInsertDown(l, j) ==
    IF j > 1 /\ PPLess(l, j, j - 1)
    THEN PPInsertDown(Swap(l, j, j - 1), j - 1)
    ELSE l

RECURSIVE PPSortFrom(_, _)
PPSortFrom(l, i) ==
    IF i > Len(l) THEN l ELSE PPSortFrom(PPInsertDown(l, i), i + 1)

\* sort.Sort(c): an insertion sort for the list lengths of the model.
PPSort(l) == PPSortFrom(l, 2)

\* pathparser.Chains.Prepare: prepared is set before the validation loop.
PrepareList(l, prep) ==
    IF prep
    THEN [list |-> l, prepared |-> prep, res |-> PPError("already prepared")]
    ELSE IF Len(l) = 0
    THEN [list |-> l, prepared |-> prep, res |-> PPError("is empty")]
    ELSE LET msgs == PPChainMsgs(l)
             compiled == [ci \in 1..Len(l) |-> PPCompileChain(l[ci])]
         IN  IF msgs # {}
             THEN [list |-> compiled, prepared |-> TRUE,
                   res |-> [PPNoResult EXCEPT !.err = msgs]]
             ELSE [list |-> PPSort(compiled), prepared |-> TRUE,
                   res |-> PPNoResult]

\* Mutant of VarsMsgs: a name no token declares is not reported.
VarsMsgsKnownOnly(known, v) ==
    { Msg(0, 0, name \o " is not a pointer") :
          name \in { n \in DOMAIN v : v[n] \notin {"*int", "*string"} } }
    \cup
    { Msg(0, 0, "not handled variable " \o name) :
          name \in { n \in known : n \notin DOMAIN v } }

\* The messages Do collects about the Vars map.
VarsMsgs(known, v) ==
    { Msg(0, 0, "unknown variable " \o name) :
          name \in { n \in DOMAIN v : n \notin known } }
    \cup
    { Msg(0, 0, name \o " is not a pointer") :
          name \in { n \in DOMAIN v : v[n] \notin {"*int", "*string"} } }
    \cup
    { Msg(0, 0, "not handled variable " \o name) :
          name \in { n \in known : n \notin DOMAIN v } }

RECURSIVE PPMatchFrom(_, _, _)
\* The token loop of the scan from token i on: "yes" when every matcher
\* accepts, "no" at the first that rejects, "fault" when it reaches a token
\* whose re is nil.
PPMatchFrom(tokens, path, i) ==
    IF i > Len(tokens) THEN "yes"
    ELSE IF ~tokens[i].re.set THEN "fault"
    ELSE IF ~MatchesBare(tokens[i].re.src, path[i]) THEN "no"
    ELSE PPMatchFrom(tokens, path, i + 1)

RECURSIVE PPScanFrom(_, _, _)
\* The scan of Do from position ci on: the position of the matched chain, 0
\* for none, -1 when the scan dereferences a nil matcher.
PPScanFrom(l, path, ci) ==
    IF ci > Len(l) THEN 0
    ELSE IF Len(l[ci].tokens) < Len(path) THEN PPScanFrom(l, path, ci + 1)
    ELSE IF Len(l[ci].tokens) > Len(path) THEN 0
    ELSE LET m == PPMatchFrom(l[ci].tokens, path, 1)
         IN  IF m = "fault" THEN -1
             ELSE IF m = "yes" THEN ci
             ELSE PPScanFrom(l, path, ci + 1)

RECURSIVE PPBindFrom(_, _, _, _, _)
\* The conversion loop of Do from token i on; acc is (sinks, msgs).
PPBindFrom(tokens, path, v, i, acc) ==
    IF i > Len(tokens) THEN acc
    ELSE LET dest == tokens[i].dest
         IN  IF SinkOK(path[i], v[dest])
             THEN PPBindFrom(tokens, path, v, i + 1,
                      [acc EXCEPT !.sinks[dest] = SinkValue(path[i], v[dest])])
             ELSE PPBindFrom(tokens, path, v, i + 1,
                      [acc EXCEPT !.msgs = @ \cup
                          {Msg(0, i, "cannot convert to " \o dest)}])

\* pathparser.Chains.Do(path, vars).
DoChains(l, prep, known, path, v) ==
    IF ~prep THEN PPError("not prepared")
    ELSE IF VarsMsgs(known, v) # {}
    THEN [PPNoResult EXCEPT !.err = VarsMsgs(known, v)]
    ELSE IF Len(l) = 0 THEN [PPNoResult EXCEPT !.fault = TRUE]
    ELSE IF /\ Len(path) = 0
            /\ Len(l[1].tokens) = 1
            /\ l[1].tokens[1].expr = ""
    THEN [PPNoResult EXCEPT !.found = TRUE]
    ELSE LET m == PPScanFrom(l, path, 1)
         IN  IF m = -1 THEN [PPNoResult EXCEPT !.fault = TRUE]
             ELSE IF m = 0 THEN PPNoResult
             ELSE LET b == PPBindFrom(l[m].tokens, path, v, 1,
                                      [sinks |-> ZeroSinks, msgs |-> {}])
                  IN  [PPNoResult EXCEPT !.found = (b.msgs = {}),
                                         !.err = b.msgs,
                                         !.sinks = b.sinks]

\* The last call was not a Do.
NoCall == [path |-> <<>>, vars |-> [n \in {} |-> ""]]

\* No call was made on the set NewChains returned.
PPIdle ==
    /\ ppList = <<>>
    /\ ppPrepared = FALSE
    /\ knownVars = {}
    /\ ppOp = "none"
    /\ ppRes = PPNoResult
    /\ ppCall = NoCall

(***************************************************************************)
(* rest.go: what a hook, a method of ProcOptions and do return, a triple   *)
(* (result any, code int, err error).  A result is nil, an object that is  *)
(* not an *ExecResult, or an *ExecResult with the codes of its Rows; err   *)
(* is TRUE for a non-nil error.                                            *)
(***************************************************************************)
Nil == [kind |-> "nil", Rows |-> <<>>]

Obj == [kind |-> "object", Rows |-> <<>>]

ExecResult(rows) == [kind |-> "ExecResult", Rows |-> rows]

Ret(result, code, err) == [result |-> result, code |-> code, err |-> err]

\* No request is being served.
RestIdle ==
    /\ Method = ""
    /\ calls = <<>>
    /\ reply = Ret(Nil, 0, FALSE)

\* checkFields was not called.
NoCheck ==
    [op |-> "none", forUpdate |-> FALSE, cfg |-> 0, body |-> <<>>,
     Fields |-> <<>>, Rows |-> <<>>, success |-> TRUE, fault |-> FALSE]

CheckIdle == cf = NoCheck

\* No ByRow was made.
NoByRow ==
    [pc |-> "none", rows |-> 0, pos |-> 0, tuner |-> FALSE, Begin |-> FALSE,
     End |-> FALSE, Delimiter |-> FALSE, RowNum |-> 0, IsFinal |-> FALSE,
     last |-> 0, err |-> FALSE]

ByRowIdle == br = NoByRow /\ written = <<>>

\* ShaperWorkers was not called and no request came in.
ShaperIdle ==
    /\ shaperQueue = <<>>
    /\ requests = <<>>
    /\ workers = <<>>


(***************************************************************************)
(* Specification of path.Chains: a Chains value is declared, then Prepare  *)
(* and Find are called on it in any order.                                 *)
(***************************************************************************)
NoResult ==
    [matched |-> 0, pathParams |-> NilParams, code |-> 0, err |-> {},
     fault |-> FALSE]

\* Clone was not called.
NoClone ==
    [op |-> "none", hdr |-> GoodHeader, Chains |-> <<>>, prepared |-> FALSE,
     PathParamsType |-> "nil", err |-> {}]

\* No Find is between its steps.
NoFind == [busy |-> FALSE, path |-> <<>>, ppt |-> "nil"]

\* No call was made yet.
PathIdle ==
    /\ inflight = NoFind
    /\ clone = NoClone
    /\ prepared = FALSE
    /\ PathParamsType = "nil"
    /\ lastOp = "none"
    /\ lastPath = <<>>
    /\ prepErr = {}
    /\ res = NoResult

Init ==
    /\ PPIdle
    /\ RestIdle
    /\ CheckIdle
    /\ ByRowIdle
    /\ ShaperIdle
    /\ hdr = GoodHeader
    /\ \E n \in 0..MaxChains : \E f \in [1..n -> 1..Len(ChainPool)] :
            Chains = ChainList(ChainPool, f)
    /\ PathIdle

Prepare ==
    LET r == PrepareChains(hdr, Chains, prepared, PathParamsType)
    IN  /\ hdr' = r.hdr
        /\ Chains' = r.Chains
        /\ prepared' = r.prepared
        /\ PathParamsType' = r.PathParamsType
        /\ prepErr' = r.msgs
        /\ lastOp' = "Prepare"
        /\ UNCHANGED <<lastPath, res, inflight>>
        /\ UNCHANGED <<clone, ppVars, handlerVars>>

Find(path) ==
    /\ res' = FindChains(Chains, prepared, PathParamsType, path)
    /\ lastOp' = "Find"
    /\ lastPath' = path
    /\ UNCHANGED <<hdr, Chains, prepared, PathParamsType, prepErr, inflight>>
    /\ UNCHANGED <<clone, ppVars, handlerVars>>

FindAny == \E path \in Paths : Find(path)

Next == Prepare \/ FindAny

vars == <<pathVars, ppVars, handlerVars>>

Spec == Init /\ [][Next]_vars

(***************************************************************************)
(* Specification of Prepare alone, over every set-level declaration and    *)
(* every legal and illegal chain declaration of the model.                 *)
(***************************************************************************)
InitPrepare ==
    /\ PPIdle
    /\ RestIdle
    /\ CheckIdle
    /\ ByRowIdle
    /\ ShaperIdle
    /\ hdr \in Headers
    /\ \E n \in 0..MaxChains :
       \E f \in [1..n -> 1..(Len(ChainPool) + Len(IllegalPool))] :
            Chains = ChainList(ChainPool \o IllegalPool, f)
    /\ PathIdle

SpecPrepare == InitPrepare /\ [][Prepare]_vars

(***************************************************************************)
(* Specification of Prepare and Find over the declarations around the      *)
(* tail flag.                                                              *)
(***************************************************************************)
InitTail ==
    /\ PPIdle
    /\ RestIdle
    /\ CheckIdle
    /\ ByRowIdle
    /\ ShaperIdle
    /\ hdr = GoodHeader
    /\ \E n \in 0..MaxChains : \E f \in [1..n -> 1..Len(TailPool)] :
            Chains = ChainList(TailPool, f)
    /\ PathIdle

SpecTail == InitTail /\ [][Next]_vars

(***************************************************************************)
(* Specification of Prepare and Find over the declarations around the      *)
(* binding.                                                                *)
(***************************************************************************)
InitBind ==
    /\ PPIdle
    /\ RestIdle
    /\ CheckIdle
    /\ ByRowIdle
    /\ ShaperIdle
    /\ hdr = GoodHeader
    /\ \E n \in 0..MaxChains : \E f \in [1..n -> 1..Len(BindPool)] :
            Chains = ChainList(BindPool, f)
    /\ PathIdle

SpecBind == InitBind /\ [][Next]_vars

(***************************************************************************)
(* Specification of Find called from several threads without a lock: one   *)
(* Find is taken in two steps, and Prepare and the Find calls of the other *)
(* threads run between them.                                               *)
(***************************************************************************)
\* Mutant of FindEnd: a Find whose binding fails marks the set unprepared.
FindEndUnpreparing ==
    /\ inflight.busy
    /\ res' = FindChains(Chains, TRUE, inflight.ppt, inflight.path)
    /\ prepared' = (res'.err = {})
    /\ lastOp' = "Find"
    /\ lastPath' = inflight.path
    /\ inflight' = NoFind
    /\ UNCHANGED <<hdr, Chains, PathParamsType, prepErr>>
    /\ UNCHANGED <<clone, ppVars, handlerVars>>

\* The first step of Find: reflect.New on PathParamsType and the test of
\* prepared.  A Find that panics or reports "not prepared" ends here.
FindBegin(path) ==
    /\ ~inflight.busy
    /\ IF PathParamsType = "nil" \/ ~prepared
       THEN /\ res' = FindChains(Chains, prepared, PathParamsType, path)
            /\ lastOp' = "Find"
            /\ lastPath' = path
            /\ UNCHANGED inflight
       ELSE /\ inflight' = [busy |-> TRUE, path |-> path,
                            ppt |-> PathParamsType]
            /\ UNCHANGED <<lastOp, lastPath, res>>
    /\ UNCHANGED <<hdr, Chains, prepared, PathParamsType, prepErr>>
    /\ UNCHANGED <<clone, ppVars, handlerVars>>

FindBeginAny == \E path \in Paths : FindBegin(path)

\* The second step of Find: the scan over the chain list and the deferred
\* binding, with the type read in the first step.
FindEnd ==
    /\ inflight.busy
    /\ res' = FindChains(Chains, TRUE, inflight.ppt, inflight.path)
    /\ lastOp' = "Find"
    /\ lastPath' = inflight.path
    /\ inflight' = NoFind
    /\ UNCHANGED <<hdr, Chains, prepared, PathParamsType, prepErr>>
    /\ UNCHANGED <<clone, ppVars, handlerVars>>

NextThreads == Prepare \/ FindAny \/ FindBeginAny \/ FindEnd

InitThreads ==
    /\ PPIdle
    /\ RestIdle
    /\ CheckIdle
    /\ ByRowIdle
    /\ ShaperIdle
    /\ hdr = GoodHeader
    /\ \E n \in 0..MaxChains : \E f \in [1..n -> 1..Len(ThreadsPool)] :
            Chains = ChainList(ThreadsPool, f)
    /\ PathIdle

SpecThreads == InitThreads /\ [][NextThreads]_vars

(***************************************************************************)
(* Specification of Clone: the set is declared, Prepare is called on it or *)
(* not, Clone is called on it and Prepare is called on the clone.          *)
(***************************************************************************)
\* Token.Clone, Chain.Clone and ChainsList.Clone: a copy of every chain and
\* of every token, all fields kept (a nil slot stays nil).
CloneList(list) == [i \in 1..Len(list) |-> list[i]]

\* Chains.Clone: new := *chains copies every field, prepared included, and
\* the chain list is replaced by its copy.
CloneChains ==
    /\ clone.op = "none"
    /\ clone' = [op |-> "Clone", hdr |-> hdr, Chains |-> CloneList(Chains),
                 prepared |-> prepared, PathParamsType |-> PathParamsType,
                 err |-> {}]
    /\ UNCHANGED <<hdr, Chains, prepared, PathParamsType, lastOp, lastPath,
                   prepErr, res, inflight>>
    /\ UNCHANGED <<ppVars, handlerVars>>

\* The first Prepare called on the clone.
PrepareClone ==
    /\ clone.op = "Clone"
    /\ LET r == PrepareChains(clone.hdr, clone.Chains, clone.prepared,
                              clone.PathParamsType)
       IN  clone' = [op |-> "Prepare", hdr |-> r.hdr, Chains |-> r.Chains,
                     prepared |-> r.prepared,
                     PathParamsType |-> r.PathParamsType, err |-> r.msgs]
    /\ UNCHANGED <<hdr, Chains, prepared, PathParamsType, lastOp, lastPath,
                   prepErr, res, inflight>>
    /\ UNCHANGED <<ppVars, handlerVars>>

NextClone == Prepare \/ CloneChains \/ PrepareClone

SpecClone == Init /\ [][NextClone]_vars

(***************************************************************************)
(* Specification of pathparser.Chains: NewChain, Add, Prepare and Do are   *)
(* called in any order on the set NewChains returned.                      *)
(***************************************************************************)
InitPP ==
    /\ PPIdle
    /\ RestIdle
    /\ CheckIdle
    /\ ByRowIdle
    /\ ShaperIdle
    /\ hdr = GoodHeader
    /\ Chains = <<>>
    /\ PathIdle

NewChain ==
    /\ ppPrepared \/ Len(ppList) < MaxNewChains
    /\ LET r == NewChainOn(ppList, ppPrepared)
       IN  /\ ppList' = r.list
           /\ ppRes' = r.res
    /\ ppOp' = "NewChain"
    /\ ppCall' = NoCall
    /\ UNCHANGED <<ppPrepared, knownVars>>
    /\ UNCHANGED <<pathVars, handlerVars>>

Add(chainIdx, expr, dest) ==
    LET r == AddTo(ppList, ppPrepared, knownVars, chainIdx, expr, dest)
    IN  /\ r.res.err # {} \/ TokenCount(ppList, 1) < MaxAdds
        /\ ppList' = r.list
        /\ knownVars' = r.knownVars
        /\ ppRes' = r.res
        /\ ppOp' = "Add"
        /\ ppCall' = NoCall
        /\ UNCHANGED ppPrepared
        /\ UNCHANGED <<pathVars, handlerVars>>

AddAny ==
    \E chainIdx \in 0..MaxNewChains : \E i \in 1..Len(AddPool) :
        Add(chainIdx, AddPool[i].expr, AddPool[i].dest)

PrepareLocked ==
    LET r == PrepareList(ppList, ppPrepared)
    IN  /\ ppList' = r.list
        /\ ppPrepared' = r.prepared
        /\ ppRes' = r.res
        /\ ppOp' = "Prepare"
        /\ ppCall' = NoCall
        /\ UNCHANGED knownVars
        /\ UNCHANGED <<pathVars, handlerVars>>

Do(path, v) ==
    /\ ppRes' = DoChains(ppList, ppPrepared, knownVars, path, v)
    /\ ppOp' = "Do"
    /\ ppCall' = [path |-> path, vars |-> v]
    /\ UNCHANGED <<ppList, ppPrepared, knownVars>>
    /\ UNCHANGED <<pathVars, handlerVars>>

DoAny == \E path \in Paths : \E v \in VarsPool : Do(path, v)

NextPP == NewChain \/ AddAny \/ PrepareLocked \/ DoAny

SpecPP == InitPP /\ [][NextPP]_vars

(***************************************************************************)
(* Properties of a failed Prepare.                                         *)
(***************************************************************************)
AlreadyPrepared == Msg(0, 0, "already prepared")

\* The last call on the path.Chains set was a Prepare that returned a
\* configuration error.
PathPrepareFailed ==
    lastOp = "Prepare" /\ prepErr # {} /\ AlreadyPrepared \notin prepErr

\* The last call on the pathparser.Chains set was a Prepare that returned a
\* configuration error.
LockedPrepareFailed ==
    ppOp = "Prepare" /\ ppRes.err # {} /\ AlreadyPrepared \notin ppRes.err

\* C7: in both variants (path.Chains and the lock-guarded pathparser.Chains)
\* a Prepare that returns a configuration error leaves the set unprepared, so
\* that a later lookup on it reports that the set is not prepared.
C7_FailedPrepareLeavesUnprepared ==
    /\ PathPrepareFailed => ~prepared
    /\ LockedPrepareFailed => ~ppPrepared

(***************************************************************************)
(* Properties of Find.                                                     *)
(***************************************************************************)
IsDefault(chain) == FlagChainDefault \in chain.Flags
IsTail(chain) == FlagChainEnableTail \in chain.Flags

\* The chain is length-compatible with ln segments: the same token count, or
\* fewer tokens when it is tail-enabled.
LengthCompatible(chain, ln) ==
    \/ Len(chain.Tokens) = ln
    \/ Len(chain.Tokens) < ln /\ IsTail(chain)

\* The chain satisfies the segments: it is length-compatible and every token
\* matcher accepts its segment.
Satisfies(chain, path) ==
    /\ LengthCompatible(chain, Len(path))
    /\ \A i \in 1..Len(chain.Tokens) :
          Matches(chain.Tokens[i].re.src, path[i])

\* The positions of the chains of the prepared list that satisfy the path.
Satisfying(path) == { i \in 1..Len(Chains) : Satisfies(Chains[i], path) }

\* The chain of the list with the given id (a *Chain returned by Find).
ChainById(id) == Chains[CHOOSE i \in 1..Len(Chains) : Chains[i].id = id]

\* The last call was a Find on the prepared set and it returned normally.
FoundOnPrepared == lastOp = "Find" /\ prepared /\ ~res.fault

\* The binding of the last Find met a conversion failure.
ConversionFailed == \E m \in res.err : m.ti > 0

\* C1: on a prepared set, when some chain is length-compatible with the
\* segments and all its matchers accept them, Find returns the first such
\* chain of the prepared order (a Find whose binding fails returns no chain:
\* that case is C5's).
C1_FirstSatisfyingChainWins ==
    (FoundOnPrepared /\ ~ConversionFailed /\ Satisfying(lastPath) # {})
        => res.matched =
             Chains[CHOOSE i \in Satisfying(lastPath) :
                      \A j \in Satisfying(lastPath) : i <= j].id

\* The scan of the last Find found no chain (the empty-path case apart).
ScanFoundNothing ==
    /\ lastOp = "Find" /\ prepared
    /\ ~(/\ Len(lastPath) = 0 /\ Len(Chains) > 0
         /\ Len(Chains[1].Tokens) = 1 /\ Chains[1].Tokens[1].Expr = "")
    /\ ScanFrom(Chains, lastPath, 1) = 0

\* C2: when the scan finds nothing, a set with a default chain returns a
\* default chain with code 0 and no error whatever the segments are, and a
\* set without one returns not-found (a Find that ends in a panic apart).
C2_FallbackToDefault ==
    (ScanFoundNothing /\ ~res.fault) =>
        /\ IF \E i \in 1..Len(Chains) : IsDefault(Chains[i])
           THEN /\ res.matched # 0
                /\ IsDefault(ChainById(res.matched))
                /\ res.code = 0
                /\ res.err = {}
           ELSE /\ res.matched = 0
                /\ res.code = StatusNotFound

\* C3: when a non-default chain satisfies the segments, Find returns no
\* default chain.
C3_DefaultNeverOutranksLiteral ==
    (/\ lastOp = "Find" /\ prepared
     /\ \E i \in Satisfying(lastPath) : ~IsDefault(Chains[i]))
        => /\ ~res.fault
           /\ res.matched # 0 => ~IsDefault(ChainById(res.matched))

\* C3 witness: a default and a non-default chain both satisfy the segments
\* and Find returned a chain.
C3_Witness ==
    /\ FoundOnPrepared /\ res.matched # 0
    /\ \E i \in Satisfying(lastPath) : ~IsDefault(Chains[i])
    /\ \E i \in Satisfying(lastPath) : IsDefault(Chains[i])

\* The chains the scan takes as candidates for ln segments: it neither skips
\* them nor ends at them.
Candidate(chain, ln) == ~SkipChain(chain, ln) /\ ~StopScan(chain, ln)

\* The positions of the candidates whose tokens all accept the path.
AcceptingCandidates(path) ==
    { i \in 1..Len(Chains) :
        Candidate(Chains[i], Len(path)) /\ Accepts(Chains[i], path) }

\* C4 as claimed: all candidates for the segment list whose tokens accept it
\* have the same token count.
C4_NoTieAcrossLengths ==
    (lastOp = "Find" /\ prepared) =>
        \A i, j \in AcceptingCandidates(lastPath) :
            Len(Chains[i].Tokens) = Len(Chains[j].Tokens)

\* C4 amended: all candidates for the segment list that are not tail-enabled
\* and whose tokens accept it have the same token count, the number of
\* segments; only a tail-enabled chain competes with chains of another length.
C4_NoTieAcrossLengthsWithoutTail ==
    (lastOp = "Find" /\ prepared) =>
        \A i, j \in AcceptingCandidates(lastPath) :
            (~IsTail(Chains[i]) /\ ~IsTail(Chains[j]))
                => /\ Len(Chains[i].Tokens) = Len(Chains[j].Tokens)
                   /\ Len(Chains[i].Tokens) = Len(lastPath)

\* C4 witness: Find chose between two accepting candidates without the tail
\* flag.
C4_Witness ==
    /\ FoundOnPrepared /\ res.matched # 0
    /\ \E i, j \in AcceptingCandidates(lastPath) :
          i # j /\ ~IsTail(Chains[i]) /\ ~IsTail(Chains[j])

\* C5: a conversion failure during binding makes Find return no chain, the
\* not-found code, the conversion error and no parameter record.
C5_ConversionFailureIsNotFound ==
    (lastOp = "Find" /\ ~res.fault /\ ConversionFailed)
        => /\ res.matched = 0
           /\ res.code = StatusNotFound
           /\ res.pathParams = NilParams

\* C6: Find on a set that is not prepared returns code 500, an error and no
\* chain.
C6_NotPreparedIsInternalError ==
    (lastOp = "Find" /\ ~prepared)
        => /\ ~res.fault
           /\ res.code = StatusInternalServerError
           /\ res.err # {}
           /\ res.matched = 0

(***************************************************************************)
(* Properties of Prepare.                                                  *)
(***************************************************************************)
\* C8: once prepared, the set stays prepared with its chain order and its
\* compiled matchers unchanged, and a further Prepare returns an error.
C8_PrepareIsOneTime ==
    [][prepared =>
          /\ prepared'
          /\ Chains' = Chains
          /\ PathParamsType' = PathParamsType
          /\ (lastOp' = "Prepare" => prepErr' # {})]_vars

\* C8 witness: Prepare was called on a prepared set of several chains and
\* returned the error.
C8_Witness ==
    /\ prepared /\ lastOp = "Prepare" /\ Len(Chains) >= 2
    /\ prepErr = {Msg(0, 0, "already prepared")}

\* The configuration errors of token ti of a chain, as the chain validation
\* rules state them.
TokenIllegal(ppt, chain, ti) ==
    LET token == chain.Tokens[ti]
    IN  \/ token.VarName = ""
        \/ /\ token.VarName \notin {"", VarIgnore}
           /\ FieldKind(ppt, token.VarName) \notin {"string", "uint64"}
        \/ token.Expr = "" /\ Len(chain.Tokens) > 1
        \/ ~CompilesAnchored(token.Expr)

\* The illegal chains and tokens of a list: <<ci, 0>> for an empty chain,
\* <<ci, ti>> for an illegal token.
IllegalItems(ppt, list) ==
    { <<ci, 0>> : ci \in { c \in 1..Len(list) : Len(list[c].Tokens) = 0 } }
    \cup
    { it \in (1..Len(list)) \X (1..3) :
        /\ it[2] <= Len(list[it[1]].Tokens)
        /\ TokenIllegal(ppt, list[it[1]], it[2]) }

\* The type Prepare checks the variable names against.
DeclaredType ==
    IF hdr.PathParamsPattern = "pathParamsPattern"
    THEN "pathParamsPattern" ELSE "struct{}"

\* C9: Prepare returns an error, and leaves the set unprepared, whenever
\* the chain list has an empty chain or an illegal token.
C9_IllegalChainFailsPrepare ==
    (lastOp = "Prepare" /\ IllegalItems(DeclaredType, Compact(Chains)) # {})
        => prepErr # {} /\ ~prepared

\* C9 witness: Prepare rejected a list for its chains alone.
C9_Witness ==
    /\ lastOp = "Prepare"
    /\ IllegalItems(DeclaredType, Compact(Chains)) # {}
    /\ prepErr # {} /\ \A m \in prepErr : m.ci > 0

\* The chains and tokens the messages of the last Prepare are about.
ReportedItems == { <<m.ci, m.ti>> : m \in { x \in prepErr : x.ci > 0 } }

HeaderLegal ==
    /\ hdr.PathParamsPattern \in {"struct{}{}", "pathParamsPattern"}
    /\ ~(hdr.RequestPattern # "nil" /\ hdr.RequestObjectName = "")

EmptyPathChain(chain) ==
    /\ ~IsDefault(chain)
    /\ Len(chain.Tokens) = 1
    /\ chain.Tokens[1].Expr = ""

\* C11: when a prepared set contains a non-default chain of a single token
\* with an empty pattern, such a chain is first in the prepared order, and a
\* Find on the empty segment list returns the first chain with code 0, no
\* error and a zero-valued parameter record.
C11_EmptyPathChainFirst ==
    (prepared /\ \E i \in 1..Len(Chains) : EmptyPathChain(Chains[i]))
        => /\ EmptyPathChain(Chains[1])
           /\ (lastOp = "Find" /\ lastPath = <<>>)
                 => /\ ~res.fault
                    /\ res.matched = Chains[1].id
                    /\ res.code = 0
                    /\ res.err = {}
                    /\ res.pathParams = ZeroParams

\* C11 witness: Find on the empty segment list returned the empty-pattern
\* chain, which was registered after a chain with a pattern.
C11_Witness ==
    /\ FoundOnPrepared /\ lastPath = <<>>
    /\ res.matched > 1
    /\ EmptyPathChain(ChainById(res.matched))
    /\ \E i \in 2..Len(Chains) :
          Chains[i].id < res.matched /\ ~IsDefault(Chains[i])

\* No chain of the list covers ln segments: none has ln tokens, no
\* tail-enabled chain has fewer, and none is a default chain.
NoChainCovers(ln) ==
    \A i \in 1..Len(Chains) :
        /\ Len(Chains[i].Tokens) # ln
        /\ ~(IsTail(Chains[i]) /\ Len(Chains[i].Tokens) < ln)
        /\ ~IsDefault(Chains[i])

\* C12: on every prepared set, a Find whose segment count no chain covers
\* returns not-found with no matched chain (the empty segment list answered
\* by an empty-pattern first chain, C11's case, apart).
C12_NoCandidateIsNotFound ==
    (/\ lastOp = "Find" /\ prepared
     /\ NoChainCovers(Len(lastPath))
     /\ ~(lastPath = <<>> /\ Len(Chains) > 0 /\ EmptyPathChain(Chains[1])))
        => /\ ~res.fault
           /\ res.matched = 0
           /\ res.code = StatusNotFound

(***************************************************************************)
(* The tail flag.                                                          *)
(***************************************************************************)
\* The matchers of the chain accept the first segments of the path, one for
\* each token; the path has at least as many segments as the chain tokens.
AcceptsPrefix(chain, path) ==
    /\ Len(chain.Tokens) <= Len(path)
    /\ \A t \in 1..Len(chain.Tokens) :
          Matches(chain.Tokens[t].re.src, path[t])

\* The position in the prepared list of the chain Find returned, 0 for none.
MatchedPos ==
    IF res.matched = 0 THEN 0
    ELSE CHOOSE i \in 1..Len(Chains) : Chains[i].id = res.matched

\* C13: on a prepared set, when a tail-enabled chain of N tokens accepts the
\* first N segments of a list of N or more segments, Find returns a chain
\* whose matchers accept the segments, that chain or one before it (a Find
\* whose binding fails apart); and the scan never matches a chain without
\* the tail flag against more segments than the chain has tokens.
C13_TailAcceptsTrailingSegments ==
    (lastOp = "Find" /\ prepared /\ lastPath # <<>>) =>
        LET m == ScanFrom(Chains, lastPath, 1)
        IN  /\ (\E i \in 1..Len(Chains) :
                   IsTail(Chains[i]) /\ AcceptsPrefix(Chains[i], lastPath))
                  => /\ ~res.fault
                     /\ ~ConversionFailed =>
                           /\ MatchedPos # 0
                           /\ AcceptsPrefix(Chains[MatchedPos], lastPath)
            /\ (m # 0 /\ ~IsTail(Chains[m]))
                  => Len(Chains[m].Tokens) = Len(lastPath)

(***************************************************************************)
(* Several default chains.                                                 *)
(***************************************************************************)
\* The default chains of the list, by position.
Defaults == { i \in 1..Len(Chains) : IsDefault(Chains[i]) }

\* The last Find returned a chain by the fallback: no chain satisfies the
\* segments, the scan found nothing, and a chain was returned.
FellBack ==
    /\ FoundOnPrepared /\ ScanFoundNothing
    /\ Satisfying(lastPath) = {}
    /\ res.matched # 0

DefaultNoLater(a, b) ==
    \/ Len(a.Tokens) < Len(b.Tokens)
    \/ /\ Len(a.Tokens) = Len(b.Tokens)
       /\ \/ a.Tokens[1].Expr = "" /\ b.Tokens[1].Expr # ""
          \/ /\ (a.Tokens[1].Expr = "") = (b.Tokens[1].Expr = "")
             /\ a.id <= b.id

ReturnedMatching ==
    /\ FoundOnPrepared /\ res.matched # 0
    /\ \/ Satisfies(ChainById(res.matched), lastPath)
       \/ lastPath = <<>> /\ MatchedPos = 1 /\ EmptyPathChain(Chains[1])

\* C15: after a Find that returns a chain matching the segments, the field
\* of each non-discard token of the chain holds the segment at the position
\* of the token: the string, or the integer it parses to.
C15_RoundTrip ==
    ReturnedMatching =>
        LET c == ChainById(res.matched)
        IN  \A t \in 1..Len(c.Tokens) :
               (c.Tokens[t].VarName # VarIgnore /\ t <= Len(lastPath))
                  => res.pathParams[c.Tokens[t].VarName] =
                        ConvertValue(lastPath[t],
                            FieldKind(PathParamsType, c.Tokens[t].VarName))

(***************************************************************************)
(* Find reads only.                                                        *)
(***************************************************************************)
\* The step is a step of a Find: it returns from one or moves one on.
FindStep == lastOp' = "Find" \/ inflight' # inflight

\* C16: no step of a Find on a prepared set changes the set (the chain order,
\* the tokens and their matchers, the flags, the prepared flag), whatever the
\* Find returns; and whatever runs between the steps of the Find calls, the
\* result of a Find on the prepared set is the one its segments determine.
C16_FindLeavesSetUnchanged ==
    /\ []((lastOp = "Find" /\ prepared)
            => res = FindChains(Chains, TRUE, PathParamsType, lastPath))
    /\ [][(prepared /\ FindStep)
            => UNCHANGED <<hdr, Chains, prepared, PathParamsType>>]_vars

\* C16 witness: a Find on the prepared set failed in conversion while the
\* Find of another thread is between its steps.
C16_Witness ==
    /\ lastOp = "Find" /\ prepared /\ ConversionFailed
    /\ inflight.busy /\ inflight.path # lastPath

(***************************************************************************)
(* Clone.                                                                  *)
(***************************************************************************)
\* C17: whatever the state of the set it is taken from, the clone is
\* unprepared, and the first Prepare called on it is not refused as already
\* prepared.
C17_CloneIsUnprepared ==
    /\ clone.op = "Clone" => ~clone.prepared
    /\ clone.op = "Prepare" => AlreadyPrepared \notin clone.err

(***************************************************************************)
(* Writers of the lock-guarded set.                                        *)
(***************************************************************************)
\* C18: once the lock-guarded set is prepared, every NewChain and every Add,
\* wherever it comes among the Do, Prepare and writer calls, returns the
\* "already prepared" error and leaves the chain list, its tokens and the
\* known destination names unchanged.
C18_WritersRejectedOncePrepared ==
    [][(ppPrepared /\ ppOp' \in {"NewChain", "Add"})
          => /\ ppRes'.err = {AlreadyPrepared}
             /\ UNCHANGED <<ppList, knownVars, ppPrepared>>]_vars

\* C18 witness: an Add on a prepared set with tokens was rejected.
C18_Witness ==
    /\ ppPrepared /\ ppOp = "Add"
    /\ ppRes.err = {AlreadyPrepared}
    /\ TokenCount(ppList, 1) > 0

(***************************************************************************)
(* The sinks of Do.                                                        *)
(***************************************************************************)

\* The Vars map names a variable no token declares, omits a variable some
\* token declares, or holds a value that is not a pointer.
BadVars(known, v) ==
    \/ \E n \in DOMAIN v : n \notin known
    \/ \E n \in known : n \notin DOMAIN v
    \/ \E n \in DOMAIN v : v[n] \notin {"*int", "*string"}

\* C19: a Do given such a Vars map returns an error and found = false and
\* writes no sink, whether or not the path matches a chain.
C19_BadVarsBindNothing ==
    (ppOp = "Do" /\ BadVars(knownVars, ppCall.vars))
        => /\ ~ppRes.fault
           /\ ppRes.err # {}
           /\ ~ppRes.found
           /\ ppRes.sinks = ZeroSinks

\* C19 witness: the set is prepared, a chain matches the path, and the Do
\* was given a Vars map with a name no token declares.
C19_Witness ==
    /\ ppOp = "Do" /\ ppPrepared
    /\ PPScanFrom(ppList, ppCall.path, 1) > 0
    /\ \E n \in DOMAIN ppCall.vars : n \notin knownVars
    /\ ppRes.err # {}

(***************************************************************************)
(* rest.go: ProcOptions.do and the methods it dispatches to.  The hooks,   *)
(* the database and the request body are the inputs of a request; prepare  *)
(* and beginTransaction succeed, the chain has no cache, its queries do    *)
(* not return ids (FlagUDqueriesReturnsID is off), the response is an      *)
(* array, the database reports at least one row affected, and no hook asks *)
(* for StatusRetry.                                                        *)
(***************************************************************************)
MaxFields == 2

\* The rows of a streamed result set.
MaxRows == 2

\* The worker goroutines of the shaper and the requests that enter rest().
MaxWorkers == 2

MaxRequests == 2

StatusProcessed == 999

StatusOK == 200

StatusMultiStatus == 207

StatusBadRequest == 400

StatusMethodNotAllowed == 405

StatusUnprocessableEntity == 422

Methods == {"GET", "POST", "PUT", "PATCH", "DELETE", "OPTIONS"}

\* What a Before hook returns.
HookOutcomes ==
    { Ret(Nil, 0, FALSE),
      Ret(Nil, 403, FALSE),
      Ret(Obj, 0, FALSE),
      Ret(Obj, StatusOK, FALSE),
      Ret(ExecResult(<<409>>), 0, FALSE),
      Ret(Nil, 0, TRUE),
      Ret(Nil, StatusProcessed, FALSE) }

\* What an After hook returns.
\* What an After hook returns; a negative code is a ready answer whose HTTP
\* status is its absolute value.
AfterOutcomes ==
    { Ret(Nil, 0, FALSE),
      Ret(Nil, 403, FALSE),
      Ret(Obj, -409, FALSE),
      Ret(Nil, 0, TRUE) }

\* The inputs of one request.
Requests ==
    [ hasInfoBefore : BOOLEAN, infoBefore : HookOutcomes,
      handlerBefore : HookOutcomes,
      handlerAfter : AfterOutcomes,
      hasInfoAfter : BOOLEAN, infoAfter : AfterOutcomes,
      bodyErr : BOOLEAN, fields : 0..MaxFields, valid : BOOLEAN,
      dbErr : BOOLEAN, finishErr : BOOLEAN ]

\* One entry of the calls made: a hook, the database or the transaction.
Call(name, r) == [hook |-> name, ret |-> r]

\* if err != nil { if code == 0 { code = http.StatusUnprocessableEntity } }
hook(r) ==
    IF r.err /\ r.code = 0
    THEN [r EXCEPT !.code = StatusUnprocessableEntity]
    ELSE r

\* err != nil, or code != 0 || result != nil: the caller returns.
stops(r) == r.err \/ r.code # 0 \/ r.result # Nil

\* ProcOptions.before: Info.Before if there is one, then handler.Before.
before(rq) ==
    IF rq.hasInfoBefore /\ stops(rq.infoBefore)
    THEN [ret |-> hook(rq.infoBefore),
          calls |-> <<Call("Info.Before", rq.infoBefore)>>]
    ELSE [ret |-> hook(rq.handlerBefore),
          calls |-> (IF rq.hasInfoBefore
                     THEN <<Call("Info.Before", rq.infoBefore)>>
                     ELSE <<>>)
                    \o <<Call("handler.Before", rq.handlerBefore)>>]

\* ProcOptions.after: handler.After, then Info.After if there is one.
after(rq) ==
    IF stops(rq.handlerAfter) \/ ~rq.hasInfoAfter
    THEN [ret |-> hook(rq.handlerAfter),
          calls |-> <<Call("handler.After", rq.handlerAfter)>>]
    ELSE [ret |-> hook(rq.infoAfter),
          calls |-> <<Call("handler.After", rq.handlerAfter),
                      Call("Info.After", rq.infoAfter)>>]

\* db.QueryTx or db.ExecTxEx.
Query(rq) == <<Call("db", Ret(Nil, 0, rq.dbErr))>>

\* ProcOptions.Get.
Get(rq) ==
    LET b == before(rq)
        a == after(rq)
    IN  IF stops(b.ret) THEN b
        ELSE IF rq.dbErr
        THEN [ret |-> Ret(Nil, StatusInternalServerError, TRUE),
              calls |-> b.calls \o Query(rq)]
        ELSE IF stops(a.ret)
        THEN [ret |-> a.ret, calls |-> b.calls \o Query(rq) \o a.calls]
        ELSE [ret |-> Ret(Obj, 0, FALSE),
              calls |-> b.calls \o Query(rq) \o a.calls]

\* ProcOptions.Others.
Others(rq) ==
    LET b == before(rq)
        a == after(rq)
    IN  IF stops(b.ret) THEN b
        ELSE IF stops(a.ret)
        THEN [ret |-> a.ret, calls |-> b.calls \o a.calls]
        ELSE [ret |-> Ret(Nil, StatusMethodNotAllowed, TRUE),
              calls |-> b.calls \o a.calls]

\* The loop of MultiDefer over the rows: the code of the rows, or
\* StatusMultiStatus when two of them differ.
RECURSIVE RowsCode(_, _, _)
RowsCode(rows, i, code) ==
    IF i > Len(rows) THEN code
    ELSE RowsCode(rows, i + 1,
                  IF code = 0 THEN rows[i]
                  ELSE IF rows[i] # code THEN StatusMultiStatus
                  ELSE code)

\* The quotient of Go's integer division, which truncates toward zero.
quo(a, b) == IF a >= 0 THEN a \div b ELSE -((-a) \div b)

\* ExecResult.FailedRows as MultiDefer counts it.
FailedRows(rows) == Cardinality({i \in 1..Len(rows) : quo(rows[i], 100) > 2})

\* ExecResult.SuccessRows as MultiDefer counts it.
SuccessRows(rows) == Cardinality({i \in 1..Len(rows) : quo(rows[i], 100) <= 2})

\* ExecResult.MultiDefer on the rows of the execResult of save or Delete and
\* on what the method is about to return.
MultiDefer(rows, r) ==
    IF r.code = StatusProcessed THEN r
    ELSE IF r.result # Nil /\ r.result.kind # "ExecResult" THEN r
    ELSE LET own == IF r.result # Nil THEN r.result.Rows ELSE rows
             n == IF Len(own) = 0 THEN 1 ELSE Len(own)
             marked == IF r.err
                       THEN [i \in 1..n |-> StatusUnprocessableEntity]
                       ELSE own
         IN  Ret(ExecResult(marked), RowsCode(marked, 1, 0), r.err)

\* prepareFields: one row, with Code 0, for each object of the body.
prepareFields(rq) == [i \in 1..rq.fields |-> 0]

\* checkFields: the rows after it, and whether the objects are valid.
checkFields(forUpdate, rq, rows) ==
    IF rq.fields = 0
    THEN [success |-> FALSE, Rows |-> Append(rows, 0)]
    ELSE [success |-> ~(forUpdate /\ rq.fields > 1) /\ rq.valid,
          Rows |-> rows]

\* The call of checkFields and whether it accepted the objects.
Checked(ok) == <<Call("checkFields", Ret(Nil, 0, ~ok))>>

\* DbResultParser when the queries return no ids and rows were affected.
DbResultParser(rows) == [i \in 1..Len(rows) |-> StatusOK]

\* ProcOptions.save up to its return statement.
saveBody(forUpdate, rq) ==
    LET rows == prepareFields(rq)
        b == before(rq)
        chk == checkFields(forUpdate, rq, rows)
        a == after(rq)
    IN  IF rq.bodyErr
        THEN [ret |-> Ret(Nil, StatusBadRequest, TRUE), calls |-> <<>>,
              Rows |-> <<>>]
        ELSE IF stops(b.ret)
        THEN [ret |-> b.ret, calls |-> b.calls, Rows |-> rows]
        ELSE IF ~chk.success
        THEN [ret |-> b.ret, calls |-> b.calls \o Checked(FALSE),
              Rows |-> chk.Rows]
        ELSE IF rq.dbErr
        THEN [ret |-> Ret(Nil, StatusInternalServerError, TRUE),
              calls |-> b.calls \o Checked(TRUE) \o Query(rq),
              Rows |-> chk.Rows]
        ELSE [ret |-> a.ret,
              calls |-> b.calls \o Checked(TRUE) \o Query(rq) \o a.calls,
              Rows |-> DbResultParser(chk.Rows)]

\* ProcOptions.save with its deferred MultiDefer.
save(forUpdate, rq) ==
    LET s == saveBody(forUpdate, rq)
    IN  [ret |-> MultiDefer(s.Rows, s.ret), calls |-> s.calls]

\* ProcOptions.Delete up to its return statement.
DeleteBody(rq) ==
    LET rows == <<0>>
        b == before(rq)
        a == after(rq)
    IN  IF stops(b.ret)
        THEN [ret |-> b.ret, calls |-> b.calls, Rows |-> rows]
        ELSE IF rq.dbErr
        THEN [ret |-> Ret(Nil, StatusInternalServerError, TRUE),
              calls |-> b.calls \o Query(rq), Rows |-> rows]
        ELSE [ret |-> a.ret, calls |-> b.calls \o Query(rq) \o a.calls,
              Rows |-> DbResultParser(rows)]

\* ProcOptions.Delete with its deferred MultiDefer.
Delete(rq) ==
    LET s == DeleteBody(rq)
    IN  [ret |-> MultiDefer(s.Rows, s.ret), calls |-> s.calls]

\* The switch of do on proc.R.Method.
Dispatch(m, rq) ==
    CASE m = "GET" -> Get(rq)
      [] m = "POST" -> save(FALSE, rq)
      [] m = "PUT" -> save(TRUE, rq)
      [] m = "PATCH" -> save(TRUE, rq)
      [] m = "DELETE" -> Delete(rq)
      [] OTHER -> Others(rq)

\* ProcOptions.do: the method, then the deferred finishTransaction.
do(m, rq) ==
    LET d == Dispatch(m, rq)
        success ==
            /\ ~d.ret.err
            /\ quo(d.ret.code, 100) <= 2
            /\ d.ret.result.kind = "ExecResult"
                   => FailedRows(d.ret.result.Rows) = 0
        fin == Call(IF success THEN "Commit" ELSE "Rollback",
                    Ret(Nil, 0, rq.finishErr))
    IN  [ret |-> IF ~d.ret.err /\ rq.finishErr
                 THEN [d.ret EXCEPT !.err = TRUE, !.result = Nil]
                 ELSE d.ret,
         calls |-> d.calls \o <<fin>>]

(***************************************************************************)
(* Specification of the request pipeline: requests are served one after    *)
(* another, each with any method and any inputs.                           *)
(***************************************************************************)
InitRest ==
    /\ PPIdle
    /\ RestIdle
    /\ CheckIdle
    /\ ByRowIdle
    /\ ShaperIdle
    /\ hdr = GoodHeader
    /\ Chains = <<>>
    /\ PathIdle

\* ProcOptions.rest serves a request with method m.
Request(m) ==
    /\ Method = ""
    /\ \E rq \in Requests :
           LET r == do(m, rq)
           IN  /\ calls' = r.calls
               /\ reply' = r.ret
    /\ Method' = m
    /\ UNCHANGED <<pathVars, ppVars, checkVars, byRowVars, shaperVars>>

RequestAny == \E m \in Methods : Request(m)

\* The reply is written; the next request gets a new ProcOptions.
Served ==
    /\ Method # ""
    /\ Method' = ""
    /\ calls' = <<>>
    /\ reply' = Ret(Nil, 0, FALSE)
    /\ UNCHANGED <<pathVars, ppVars, checkVars, byRowVars, shaperVars>>

NextRest == RequestAny \/ Served

SpecRest == InitRest /\ [][NextRest]_vars

\* A Before hook returned code != 0 or result != nil, without an error.
BeforeDecided(c) ==
    /\ c.hook \in {"Info.Before", "handler.Before"}
    /\ ~c.ret.err
    /\ c.ret.code # 0 \/ c.ret.result # Nil

\* The transaction was finished without an error.
Finished == \E i \in 1..Len(calls) :
    calls[i].hook \in {"Commit", "Rollback"} /\ ~calls[i].ret.err

\* The database or an After hook was called.
WentOn == \E i \in 1..Len(calls) :
    calls[i].hook \in {"db", "handler.After", "Info.After"}

\* C20: when a Before hook returns code != 0 or result != nil, the code and
\* the result it returned are the outcome of the request whatever its
\* method, and neither the database nor an After hook is called.
C20_BeforeDecidesTheOutcome ==
    \A i \in 1..Len(calls) :
        (BeforeDecided(calls[i]) /\ Finished)
            => /\ reply.code = calls[i].ret.code
               /\ reply.result = calls[i].ret.result
               /\ ~WentOn

\* The part of it that is about what is not called.
C20_NothingAfterBefore ==
    \A i \in 1..Len(calls) : BeforeDecided(calls[i]) => ~WentOn

\* The part of it that is about the outcome, for the methods without a
\* deferred MultiDefer.
C20_OutcomeWithoutMultiDefer ==
    \A i \in 1..Len(calls) :
        (BeforeDecided(calls[i]) /\ Finished
         /\ Method \notin {"POST", "PUT", "PATCH", "DELETE"})
            => /\ reply.code = calls[i].ret.code
               /\ reply.result = calls[i].ret.result

\* Two chains the first two keys of Less do not tell apart: the same default
\* status and the same number of tokens.
SameDefaultAndLength(a, b) ==
    /\ IsDefault(a) = IsDefault(b)
    /\ Len(a.Tokens) = Len(b.Tokens)

\* The first token of the chain has an empty pattern.
FirstExprEmpty(chain) == chain.Tokens[1].Expr = ""

\* C22 as claimed: after a successful Prepare, among chains with equal
\* default status and equal token count, every chain whose first token has a
\* non-empty pattern is placed before every chain whose first token has an
\* empty pattern.
C22_NonEmptyPatternFirst ==
    prepared =>
        \A i, j \in 1..Len(Chains) :
            (/\ SameDefaultAndLength(Chains[i], Chains[j])
             /\ ~FirstExprEmpty(Chains[i])
             /\ FirstExprEmpty(Chains[j])) => i < j

\* C22 as the code has it: after a successful Prepare, among chains with
\* equal default status and equal token count, every chain whose first token
\* has an empty pattern is placed before every chain whose first token has a
\* non-empty pattern.
C22_EmptyPatternFirst ==
    prepared =>
        \A i, j \in 1..Len(Chains) :
            (/\ SameDefaultAndLength(Chains[i], Chains[j])
             /\ FirstExprEmpty(Chains[i])
             /\ ~FirstExprEmpty(Chains[j])) => i < j

\* C22 witness: Prepare succeeded and moved a chain with an empty first
\* pattern before a chain of its class that was registered earlier.
C22_Witness ==
    /\ prepared /\ lastOp = "Prepare"
    /\ \E i, j \in 1..Len(Chains) :
          /\ i < j
          /\ SameDefaultAndLength(Chains[i], Chains[j])
          /\ FirstExprEmpty(Chains[i])
          /\ ~FirstExprEmpty(Chains[j])
          /\ Chains[i].id > Chains[j].id

\* C23: after a successful Prepare no default chain precedes a non-default
\* chain and, among chains of equal default status, the token counts are
\* non-decreasing along the list.
C23_DefaultsLastLengthsAscending ==
    prepared =>
        \A i, j \in 1..Len(Chains) :
            i < j =>
                /\ ~(IsDefault(Chains[i]) /\ ~IsDefault(Chains[j]))
                /\ IsDefault(Chains[i]) = IsDefault(Chains[j])
                       => Len(Chains[i].Tokens) <= Len(Chains[j].Tokens)

\* C23 witness: Prepare succeeded on a list registered with a default chain
\* before a non-default one and with a longer chain before a shorter one of
\* its default status.
C23_Witness ==
    /\ prepared /\ lastOp = "Prepare"
    /\ \E i, j \in 1..Len(Chains) :
          /\ Chains[i].id > Chains[j].id
          /\ ~IsDefault(Chains[i]) /\ IsDefault(Chains[j])
    /\ \E i, j \in 1..Len(Chains) :
          /\ Chains[i].id > Chains[j].id
          /\ IsDefault(Chains[i]) = IsDefault(Chains[j])
          /\ Len(Chains[i].Tokens) < Len(Chains[j].Tokens)

(***************************************************************************)
(* Specification of Prepare and Find on a set of MaxInsertion + 1 chains,  *)
(* the shortest list sort.Sort does not sort by insertion: chains of one   *)
(* token, with a chain of two tokens in at most two of the slots.          *)
(***************************************************************************)
SortPool ==
    << [nil |-> FALSE, Flags |-> {}, Tokens |-> <<Tok("\\d+", "ID")>>],
       [nil |-> FALSE, Flags |-> {},
        Tokens |-> <<Tok("\\d+", "ID"), Tok("active|blocked", "Status")>>] >>

InitSort ==
    /\ PPIdle
    /\ RestIdle
    /\ CheckIdle
    /\ ByRowIdle
    /\ ShaperIdle
    /\ hdr = GoodHeader
    /\ \E long \in SUBSET (1..(MaxInsertion + 1)) :
          /\ Cardinality(long) <= 2
          /\ Chains = ChainList(SortPool,
                 [i \in 1..(MaxInsertion + 1) |-> IF i \in long THEN 2 ELSE 1])
    /\ PathIdle

SpecSort == InitSort /\ [][Next]_vars

\* Two chains no key of Less tells apart: the same default status, the same
\* number of tokens and first patterns that are both empty or both not.
Tie(a, b) ==
    /\ SameDefaultAndLength(a, b)
    /\ FirstExprEmpty(a) = FirstExprEmpty(b)

\* C24: the sort of Prepare is stable: after a successful Prepare, chains
\* that tie on default status, token count and emptiness of the first
\* pattern are in the order in which they were registered, for any number
\* of chains.
C24_SortIsStable ==
    prepared =>
        \A i, j \in 1..Len(Chains) :
            (i < j /\ Tie(Chains[i], Chains[j]))
                => Chains[i].id < Chains[j].id

\* The position at which the scan loop, entered at ci, ends for a chain with
\* more tokens than there are segments; 0 when it ends otherwise.
RECURSIVE StopFrom(_, _, _)
StopFrom(list, path, ci) ==
    IF ci > Len(list) THEN 0
    ELSE IF SkipChain(list[ci], Len(path)) THEN StopFrom(list, path, ci + 1)
    ELSE IF StopScan(list[ci], Len(path)) THEN ci
    ELSE IF Accepts(list[ci], path) THEN 0
    ELSE StopFrom(list, path, ci + 1)

\* The last Find ran the scan loop (it did not take the empty-path case).
Scanned ==
    /\ FoundOnPrepared
    /\ Len(Chains) > 0
    /\ ~(lastPath = <<>> /\ Len(Chains[1].Tokens) = 1
         /\ Chains[1].Tokens[1].Expr = "")

\* C25: whenever Find stops scanning at a chain whose token count exceeds
\* the number of segments, no chain later in the sorted list has exactly as
\* many tokens as there are segments, so the short-circuit never skips a
\* chain that would have matched.
C25_ShortCircuitIsSound ==
    (Scanned /\ StopFrom(Chains, lastPath, 1) # 0)
        => \A k \in (StopFrom(Chains, lastPath, 1) + 1)..Len(Chains) :
              /\ Len(Chains[k].Tokens) # Len(lastPath)
              /\ ~Satisfies(Chains[k], lastPath)

\* The part of it that holds: no non-default chain is skipped.
C25_SoundAmongNonDefault ==
    (Scanned /\ StopFrom(Chains, lastPath, 1) # 0)
        => \A k \in (StopFrom(Chains, lastPath, 1) + 1)..Len(Chains) :
              ~IsDefault(Chains[k]) =>
                  /\ Len(Chains[k].Tokens) # Len(lastPath)
                  /\ ~Satisfies(Chains[k], lastPath)

\* C26: on every set on which Prepare succeeded, the set whose chain list is
\* empty included, and for every segment list, Find completes without a
\* runtime fault and returns either a chain with code 0, no error and a
\* parameter record, or no chain with a non-zero code or an error; it never
\* returns no chain with code 0 and no error.
C26_FindAlwaysAnswers ==
    (lastOp = "Find" /\ prepared)
        => /\ ~res.fault
           /\ \/ /\ res.matched # 0
                 /\ res.code = 0
                 /\ res.err = {}
                 /\ res.pathParams # NilParams
              \/ /\ res.matched = 0
                 /\ res.code # 0 \/ res.err # {}

\* The same on the sets that have a chain.
C26_AnswersWithAChain ==
    (lastOp = "Find" /\ prepared /\ Len(Chains) > 0)
        => /\ ~res.fault
           /\ \/ /\ res.matched # 0
                 /\ res.code = 0
                 /\ res.err = {}
                 /\ res.pathParams # NilParams
              \/ /\ res.matched = 0
                 /\ res.code # 0 \/ res.err # {}

StatusNoContent == 204

\* The HTTP status ProcOptions.reply answers (result, code, err) with: the
\* absolute value of a negative code, and for code 0 the status it derives
\* from err and result.
FinalStatus(r) ==
    IF r.code < 0 THEN -r.code
    ELSE IF r.code # 0 THEN r.code
    ELSE IF r.err THEN StatusInternalServerError
    ELSE IF r.result = Nil THEN StatusNoContent
    ELSE StatusOK

\* The positions in calls at which the transaction was finished.
Finishes ==
    { i \in 1..Len(calls) : calls[i].hook \in {"Commit", "Rollback"} }

\* What do returned is a success: no error, a final status below 300 and an
\* ExecResult, if any, without failed rows.
Succeeded ==
    /\ ~reply.err
    /\ FinalStatus(reply) < 300
    /\ reply.result.kind = "ExecResult" => FailedRows(reply.result.Rows) = 0

\* C28: the transaction do began is finished exactly once, after the method
\* handler returned; it is committed only if the handler returned no error,
\* the final HTTP status is below 300 and the ExecResult, if any, has no
\* failed rows, and it is rolled back in every other outcome.
C28_CommitOnlyOnSuccess ==
    Method # "" =>
        /\ Finishes = {Len(calls)}
        /\ Finished => (calls[Len(calls)].hook = "Commit" <=> Succeeded)

\* The same for the outcomes whose code is not negative.
C28_CommitOnlyOnSuccessNoReadyAnswer ==
    (Method # "" /\ reply.code >= 0) =>
        /\ Finishes = {Len(calls)}
        /\ Finished => (calls[Len(calls)].hook = "Commit" <=> Succeeded)

\* checkFields rejected the objects of the last save.
Rejected == \E i \in 1..Len(calls) :
    calls[i].hook = "checkFields" /\ calls[i].ret.err

\* The database was called.
Queried == \E i \in 1..Len(calls) : calls[i].hook = "db"

\* C29: when checkFields rejects a save (no data to save, a mandatory field
\* missing or more than one record in an update), no database statement is
\* executed and the ExecResult save returns reports the rejected rows as
\* failed, FailedRows > 0 and SuccessRows = 0, with a non-success code.
C29_RejectedSaveReportsFailure ==
    (Rejected /\ Finished) =>
        /\ ~Queried
        /\ reply.result.kind = "ExecResult"
        /\ FailedRows(reply.result.Rows) > 0
        /\ SuccessRows(reply.result.Rows) = 0
        /\ FinalStatus(reply) >= 300

\* The part of it that holds: no statement is executed and an ExecResult is
\* returned.
C29_RejectedSaveExecutesNothing ==
    Rejected => ~Queried /\ (Finished => reply.result.kind = "ExecResult")

(***************************************************************************)
(* rest.go: ProcOptions.checkFields on the objects of the request body.    *)
(* An object maps each field name to "absent", to the empty string or to a *)
(* value; a result row is the list of its messages.                        *)
(***************************************************************************)
FieldNames == {"id", "guid", "name"}

Objects == [FieldNames -> {"absent", "", "x"}]

\* proc.Fields of a request: up to MaxFields objects.
Bodies == UNION { [1..n -> Objects] : n \in 0..MaxFields }

\* Request.RequiredFields, Request.UniqueKeyFields, proc.ExcludedFields and
\* Request.ReadonlyFields of a chain.
FieldConfigs ==
    << [RequiredFields |-> <<"name">>, UniqueKeyFields |-> <<"id">>,
        ExcludedFields |-> <<>>, ReadonlyFields |-> <<>>],
       [RequiredFields |-> <<>>, UniqueKeyFields |-> <<"id", "guid">>,
        ExcludedFields |-> <<>>, ReadonlyFields |-> <<>>],
       [RequiredFields |-> <<"name">>, UniqueKeyFields |-> <<>>,
        ExcludedFields |-> <<"guid">>, ReadonlyFields |-> <<"id">>] >>

\* execResult.Rows[i].AddMessage(m), i counted from 1; an index outside the
\* rows is a runtime panic.
AddMessage(st, i, m) ==
    IF st.fault THEN st
    ELSE IF i > Len(st.Rows) THEN [st EXCEPT !.fault = TRUE]
    ELSE [st EXCEPT !.Rows[i] = Append(@, m)]

\* delete(fields, dbName) on object i.
DeleteField(st, i, name) == [st EXCEPT !.Fields[i][name] = "absent"]

\* The loop over Request.RequiredFields for object i.
RECURSIVE RequiredFrom(_, _, _, _, _)
RequiredFrom(st, forUpdate, i, names, k) ==
    IF k > Len(names) \/ st.fault THEN st
    ELSE LET v == st.Fields[i][names[k]]
             ok == IF v = "absent" THEN forUpdate ELSE v # ""
         IN  RequiredFrom(
                 IF ok THEN st
                 ELSE [AddMessage(st, i, <<"mandatory field is not found",
                                           names[k]>>)
                       EXCEPT !.success = FALSE],
                 forUpdate, i, names, k + 1)

\* The loop over Request.UniqueKeyFields for object i: its own index, k,
\* hides the index of the object, and the message goes to the row k.
RECURSIVE KeysFrom(_, _, _, _)
KeysFrom(st, i, keys, k) ==
    IF k > Len(keys) \/ st.fault THEN st
    ELSE IF st.Fields[i][keys[k]] = "absent" THEN KeysFrom(st, i, keys, k + 1)
    ELSE KeysFrom(
             AddMessage(DeleteField(st, i, keys[k]), k,
                        <<IF k = 1 THEN "primary key field ignored"
                          ELSE "key field ignored", keys[k]>>),
             i, keys, k + 1)

\* The loops over proc.ExcludedFields and Request.ReadonlyFields for
\* object i.
RECURSIVE IgnoredFrom(_, _, _, _, _)
IgnoredFrom(st, i, names, k, what) ==
    IF k > Len(names) \/ st.fault THEN st
    ELSE IF st.Fields[i][names[k]] = "absent"
    THEN IgnoredFrom(st, i, names, k + 1, what)
    ELSE IgnoredFrom(
             AddMessage(DeleteField(st, i, names[k]), i, <<what, names[k]>>),
             i, names, k + 1, what)

\* The loop of checkFields over the objects.
RECURSIVE ObjectsFrom(_, _, _, _)
ObjectsFrom(st, forUpdate, cfg, i) ==
    IF i > Len(st.Fields) \/ st.fault THEN st
    ELSE LET s1 == RequiredFrom(st, forUpdate, i, cfg.RequiredFields, 1)
             s2 == IF forUpdate
                   THEN KeysFrom(s1, i, cfg.UniqueKeyFields, 1)
                   ELSE s1
             s3 == IgnoredFrom(s2, i, cfg.ExcludedFields, 1,
                               "excluded field ignored")
             s4 == IgnoredFrom(s3, i, cfg.ReadonlyFields, 1,
                               "readonly field ignored")
         IN  ObjectsFrom(s4, forUpdate, cfg, i + 1)

\* len(fields) summed over the objects.
TotalFields(Fields) ==
    Cardinality({ <<i, n>> \in (1..Len(Fields)) \X FieldNames :
                    Fields[i][n] # "absent" })

\* The end of checkFields: objects left without any field.
NoDataLeft(st) ==
    IF st.fault \/ TotalFields(st.Fields) # 0 THEN st
    ELSE [st EXCEPT
            !.Rows = [i \in 1..Len(st.Rows) |->
                        IF i <= Len(st.Fields)
                        THEN Append(st.Rows[i], <<"no data for save found">>)
                        ELSE st.Rows[i]],
            !.success = FALSE]

\* ProcOptions.checkFields(forUpdate, execResult) with proc.Fields = Fields
\* and execResult.Rows = Rows.
checkFieldsOn(forUpdate, cfg, Fields, Rows) ==
    IF Len(Fields) = 0
    THEN [Fields |-> Fields,
          Rows |-> Append(Rows, <<<<"no data for save found">>>>),
          success |-> FALSE, fault |-> FALSE]
    ELSE
    LET rows1 == IF Len(Rows) = 0 THEN [i \in 1..Len(Fields) |-> <<>>]
                 ELSE Rows
    IN  IF forUpdate /\ Len(Fields) > 1
        THEN [Fields |-> Fields,
              Rows |-> [rows1 EXCEPT
                          ![1] = Append(@, <<"records updated, expected 1">>)],
              success |-> FALSE, fault |-> FALSE]
        ELSE NoDataLeft(ObjectsFrom(
                 [Fields |-> Fields, Rows |-> rows1, success |-> TRUE,
                  fault |-> FALSE], forUpdate, cfg, 1))

(***************************************************************************)
(* Specification of checkFields: it is called by save, for an insert or an *)
(* update, on any body and any of the field configurations, with the rows  *)
(* prepareFields made (flat) or none.                                      *)
(***************************************************************************)
InitCheck ==
    /\ PPIdle
    /\ RestIdle
    /\ CheckIdle
    /\ ByRowIdle
    /\ ShaperIdle
    /\ hdr = GoodHeader
    /\ Chains = <<>>
    /\ PathIdle

CheckFields(forUpdate, c, body, flat) ==
    /\ cf = NoCheck
    /\ LET r == checkFieldsOn(forUpdate, FieldConfigs[c], body,
                              IF flat THEN [i \in 1..Len(body) |-> <<>>]
                              ELSE <<>>)
       IN  cf' = [op |-> "checkFields", forUpdate |-> forUpdate, cfg |-> c,
                  body |-> body, Fields |-> r.Fields, Rows |-> r.Rows,
                  success |-> r.success, fault |-> r.fault]
    /\ UNCHANGED <<pathVars, ppVars, restVars, byRowVars, shaperVars>>

CheckFieldsAny ==
    \E forUpdate \in BOOLEAN, c \in 1..Len(FieldConfigs), body \in Bodies,
       flat \in BOOLEAN : CheckFields(forUpdate, c, body, flat)

\* save returns.
CheckReturned ==
    /\ cf # NoCheck
    /\ cf' = NoCheck
    /\ UNCHANGED <<pathVars, ppVars, restVars, byRowVars, shaperVars>>

NextCheck == CheckFieldsAny \/ CheckReturned

SpecCheck == InitCheck /\ [][NextCheck]_vars

\* The unique-key fields the body of the checked update has.
KeysInBody ==
    { k \in 1..Len(FieldConfigs[cf.cfg].UniqueKeyFields) :
        cf.body[1][FieldConfigs[cf.cfg].UniqueKeyFields[k]] # "absent" }

\* C30: in an update, for every unique-key field present in the body,
\* checkFields removes the field from the data to save and appends the
\* "key field ignored" notice to the result row of the record being
\* processed, and it never indexes outside the result rows, whatever the
\* number of unique-key fields.
C30_KeyFieldsIgnoredInPlace ==
    (cf.op = "checkFields" /\ cf.forUpdate /\ Len(cf.body) = 1) =>
        /\ ~cf.fault
        /\ \A k \in KeysInBody :
              LET name == FieldConfigs[cf.cfg].UniqueKeyFields[k]
              IN  /\ cf.Fields[1][name] = "absent"
                  /\ \E m \in 1..Len(cf.Rows[1]) :
                        /\ cf.Rows[1][m][2] = name
                        /\ cf.Rows[1][m][1] \in {"primary key field ignored",
                                                 "key field ignored"}

\* The same for the first unique-key field alone.
C30_FirstKeyFieldIgnored ==
    (cf.op = "checkFields" /\ cf.forUpdate /\ Len(cf.body) = 1
     /\ KeysInBody \subseteq {1}) =>
        /\ ~cf.fault
        /\ \A k \in KeysInBody :
              LET name == FieldConfigs[cf.cfg].UniqueKeyFields[k]
              IN  /\ cf.Fields[1][name] = "absent"
                  /\ \E m \in 1..Len(cf.Rows[1]) :
                        cf.Rows[1][m] = <<"primary key field ignored", name>>

(***************************************************************************)
(* byRow.go: ByRow.Do streams the rows of proc.DBqueryRows.  written is    *)
(* the sequence of blocks handed to br.writer; br.rows is the number of    *)
(* rows of the result set and br.pos the number of rows read.  Begin, End  *)
(* and Delimiter say whether the block is set (not nil and not empty).     *)
(***************************************************************************)

\* What a ByRowTuner call leaves in br: the number of items of br.Data,
\* whether br.Prefix and br.Suffix are set, and its error.
TunerOutcomes ==
    [data : 0..2, Prefix : BOOLEAN, Suffix : BOOLEAN, err : {FALSE}]
    \cup { [data |-> 0, Prefix |-> FALSE, Suffix |-> FALSE, err |-> TRUE] }

\* Without a tuner: br.Data = []any{r}.
NoTuner == [data |-> 1, Prefix |-> FALSE, Suffix |-> FALSE, err |-> FALSE]

\* One block written when it is set.
WriteIf(out, set, block) == IF set THEN Append(out, block) ELSE out

\* The writing part of one pass of the loop, for the row r: the delimiter
\* or the beginning, the prefix, the data (the item marshalled last), the
\* suffix.
WriteRow(b, out, r, o) ==
    LET o1 == IF b.RowNum > 0 THEN WriteIf(out, b.Delimiter, <<"Delimiter">>)
              ELSE WriteIf(out, b.Begin, <<"Begin">>)
        o2 == WriteIf(o1, o.Prefix, <<"Prefix">>)
        o3 == WriteIf(o2, o.data > 0, <<"Data", r, o.data>>)
    IN  WriteIf(o3, o.Suffix, <<"Suffix">>)

\* NewByRow and the start of Do.
ByRowDo(n, tuner, begin, end, delimiter) ==
    /\ br = NoByRow
    /\ br' = [pc |-> "loop", rows |-> n, pos |-> 0, tuner |-> tuner,
              Begin |-> begin, End |-> end, Delimiter |-> delimiter,
              RowNum |-> 0, IsFinal |-> FALSE, last |-> 0, err |-> FALSE]
    /\ written' = <<>>
    /\ UNCHANGED <<pathVars, ppVars, restVars, checkVars, shaperVars>>

ByRowDoAny ==
    \E n \in 0..MaxRows, tuner, begin, end, delimiter \in BOOLEAN :
        ByRowDo(n, tuner, begin, end, delimiter)

\* One pass of the loop of Do that has a row to work on: a row read, or
\* the last value again for the final call of the tuner.
ByRowPass(o, scanErr) ==
    /\ br.pc = "loop"
    /\ br.pos < br.rows \/ (br.tuner /\ ~br.IsFinal)
    /\ o \in (IF br.tuner THEN TunerOutcomes ELSE {NoTuner})
    /\ LET exists == br.pos < br.rows
           r == IF exists THEN br.pos + 1 ELSE br.last
           b1 == IF exists
                 THEN [br EXCEPT !.pos = @ + 1, !.last = r]
                 ELSE [br EXCEPT !.IsFinal = TRUE]
       IN  IF exists /\ scanErr
           THEN /\ br' = [br EXCEPT !.pos = @ + 1, !.pc = "returned",
                                    !.err = TRUE]
                /\ written' = written
           ELSE IF o.err
           THEN /\ br' = [b1 EXCEPT !.pc = "returned", !.err = TRUE]
                /\ written' = written
           ELSE IF o.data = 0 /\ ~o.Prefix /\ ~o.Suffix
           THEN /\ br' = b1
                /\ written' = written
           ELSE /\ br' = [b1 EXCEPT !.RowNum = @ + 1]
                /\ written' = WriteRow(br, written, r, o)
    /\ UNCHANGED <<pathVars, ppVars, restVars, checkVars, shaperVars>>

ByRowPassAny ==
    \E o \in TunerOutcomes \cup {NoTuner}, scanErr \in BOOLEAN :
        ByRowPass(o, scanErr)

\* The pass that finds the result set finished and leaves the loop, and
\* the end of Do.
ByRowEnd(rowsErr) ==
    /\ br.pc = "loop"
    /\ br.pos = br.rows
    /\ rowsErr \/ br.IsFinal \/ ~br.tuner
    /\ IF rowsErr
       THEN /\ br' = [br EXCEPT !.pc = "returned", !.err = TRUE]
            /\ written' = written
       ELSE /\ br' = [br EXCEPT !.pc = "returned"]
            /\ written' = WriteIf(written, br.RowNum # 0 /\ br.End,
                                  <<"End">>)
    /\ UNCHANGED <<pathVars, ppVars, restVars, checkVars, shaperVars>>

ByRowEndAny == \E rowsErr \in BOOLEAN : ByRowEnd(rowsErr)

\* The caller of Do goes on.
ByRowReturned ==
    /\ br.pc = "returned"
    /\ br' = NoByRow
    /\ written' = <<>>
    /\ UNCHANGED <<pathVars, ppVars, restVars, checkVars, shaperVars>>

InitByRow == InitCheck

NextByRow == ByRowDoAny \/ ByRowPassAny \/ ByRowEndAny \/ ByRowReturned

SpecByRow == InitByRow /\ [][NextByRow]_vars

\* The number of blocks b in out.
Count(out, b) == Cardinality({ i \in 1..Len(out) : out[i] = b })

\* The rows 1..n with the delimiter between every two of them.
RECURSIVE Joined(_)
Joined(n) ==
    IF n = 0 THEN <<>>
    ELSE IF n = 1 THEN << <<"Data", 1, 1>> >>
    ELSE Joined(n - 1) \o << <<"Delimiter">>, <<"Data", n, 1>> >>

\* Do has ended without error, with Begin, End and Delimiter set.
ByRowStreamed ==
    /\ br.pc = "returned"
    /\ ~br.err
    /\ br.Begin /\ br.End /\ br.Delimiter

\* C21: for every result set streamed by ByRow.Do that ends without error,
\* the output is Begin written once at the start, then the rows with
\* Delimiter written between every two consecutive rows, then End written
\* once at the end.
C21_BeginRowsEnd ==
    ByRowStreamed =>
        /\ Len(written) >= 2
        /\ written[1] = <<"Begin">>
        /\ written[Len(written)] = <<"End">>
        /\ Count(written, <<"Begin">>) = 1
        /\ Count(written, <<"End">>) = 1
        /\ ~br.tuner => written = <<<<"Begin">>>> \o Joined(br.rows)
                                  \o <<<<"End">>>>

\* The same for the result sets of which at least one row was written.
C21_BeginRowsEndWhenWritten ==
    (ByRowStreamed /\ br.RowNum > 0) =>
        /\ written[1] = <<"Begin">>
        /\ written[Len(written)] = <<"End">>
        /\ Count(written, <<"Begin">>) = 1
        /\ Count(written, <<"End">>) = 1
        /\ Count(written, <<"Delimiter">>) = br.RowNum - 1
        /\ ~br.tuner => written = <<<<"Begin">>>> \o Joined(br.rows)
                                  \o <<<<"End">>>>

(***************************************************************************)
(* rest.go: the shaper.  workers are the goroutines ShaperWorkers started, *)
(* each at a position of its loop with the shaper s it received;           *)
(* shaperQueue is the channel info.shaperQueue, of capacity Len(workers);  *)
(* requests are the goroutines inside ProcOptions.rest(), each with its    *)
(* own shaper: the mutex s.cond.L (mu), s.result and the value rest()      *)
(* returned (ret).  A requester at "parked" is in the notify list of       *)
(* s.cond.                                                                 *)
(***************************************************************************)
InitShaper == InitCheck

\* info.ShaperWorkers(n), 0 < n <= maxShaperLen, called once.
ShaperWorkers(n) ==
    /\ workers = <<>>
    /\ workers' = [w \in 1..n |-> [pc |-> "recv", s |-> 0]]
    /\ UNCHANGED <<shaperQueue, requests>>
    /\ UNCHANGED <<pathVars, ppVars, restVars, checkVars, byRowVars>>

ShaperWorkersAny == \E n \in 1..MaxWorkers : ShaperWorkers(n)

\* A request enters rest() with the shaper on: s := &shaper{...}.
EnterRest ==
    /\ workers # <<>>
    /\ Len(requests) < MaxRequests
    /\ requests' = Append(requests, [pc |-> "send", mu |-> "free",
                                     result |-> Nil, ret |-> Nil])
    /\ UNCHANGED <<shaperQueue, workers>>
    /\ UNCHANGED <<pathVars, ppVars, restVars, checkVars, byRowVars>>

\* proc.Info.shaperQueue <- s: blocks while the channel is full.
Send(i) ==
    /\ requests[i].pc = "send"
    /\ Len(shaperQueue) < Len(workers)
    /\ shaperQueue' = Append(shaperQueue, i)
    /\ requests' = [requests EXCEPT ![i].pc = "lock"]
    /\ UNCHANGED workers

\* s.cond.L.Lock() in rest().
RequesterLock(i) ==
    /\ requests[i].pc = "lock"
    /\ requests[i].mu = "free"
    /\ requests' = [requests EXCEPT ![i].pc = "wait", ![i].mu = "requester"]
    /\ UNCHANGED <<shaperQueue, workers>>

\* s.cond.Wait(): joins the notify list, unlocks and parks.
RequesterWait(i) ==
    /\ requests[i].pc = "wait"
    /\ requests' = [requests EXCEPT ![i].pc = "parked", ![i].mu = "free"]
    /\ UNCHANGED <<shaperQueue, workers>>

\* The end of s.cond.Wait() after a Signal: locks again.
RequesterWake(i) ==
    /\ requests[i].pc = "woken"
    /\ requests[i].mu = "free"
    /\ requests' = [requests EXCEPT ![i].pc = "unlock",
                                    ![i].mu = "requester"]
    /\ UNCHANGED <<shaperQueue, workers>>

\* s.cond.L.Unlock() and the return of s.result.
RequesterReturn(i) ==
    /\ requests[i].pc = "unlock"
    /\ requests' = [requests EXCEPT ![i].pc = "returned", ![i].mu = "free",
                                    ![i].ret = requests[i].result]
    /\ UNCHANGED <<shaperQueue, workers>>

Requester(i) ==
    /\ \/ Send(i)
       \/ RequesterLock(i)
       \/ RequesterWait(i)
       \/ RequesterWake(i)
       \/ RequesterReturn(i)
    /\ UNCHANGED <<pathVars, ppVars, restVars, checkVars, byRowVars>>

\* s, ok := <-info.shaperQueue
Receive(w) ==
    /\ workers[w].pc = "recv"
    /\ shaperQueue # <<>>
    /\ workers' = [workers EXCEPT ![w] = [pc |-> "do", s |-> Head(shaperQueue)]]
    /\ shaperQueue' = Tail(shaperQueue)
    /\ UNCHANGED requests

\* What do() answers to the request i.
DoResult(i) == ExecResult(<<i>>)

\* s.result, s.code, s.err = s.do()
ShaperDo(w) ==
    /\ workers[w].pc = "do"
    /\ requests' = [requests EXCEPT
                      ![workers[w].s].result = DoResult(workers[w].s)]
    /\ workers' = [workers EXCEPT ![w].pc = "lock"]
    /\ UNCHANGED shaperQueue

\* s.cond.L.Lock() in the worker.
WorkerLock(w) ==
    /\ workers[w].pc = "lock"
    /\ requests[workers[w].s].mu = "free"
    /\ requests' = [requests EXCEPT ![workers[w].s].mu = "worker"]
    /\ workers' = [workers EXCEPT ![w].pc = "signal"]
    /\ UNCHANGED shaperQueue

\* s.cond.Signal(): wakes the goroutine in the notify list, if there is one.
Signal(w) ==
    /\ workers[w].pc = "signal"
    /\ requests' = [requests EXCEPT
                      ![workers[w].s].pc =
                          IF @ = "parked" THEN "woken" ELSE @]
    /\ workers' = [workers EXCEPT ![w].pc = "unlock"]
    /\ UNCHANGED shaperQueue

\* s.cond.L.Unlock() in the worker, and back to the receive.
WorkerUnlock(w) ==
    /\ workers[w].pc = "unlock"
    /\ requests' = [requests EXCEPT ![workers[w].s].mu = "free"]
    /\ workers' = [workers EXCEPT ![w] = [pc |-> "recv", s |-> 0]]
    /\ UNCHANGED shaperQueue

Worker(w) ==
    /\ \/ Receive(w)
       \/ ShaperDo(w)
       \/ WorkerLock(w)
       \/ Signal(w)
       \/ WorkerUnlock(w)
    /\ UNCHANGED <<pathVars, ppVars, restVars, checkVars, byRowVars>>

NextShaper ==
    \/ ShaperWorkersAny
    \/ EnterRest
    \/ \E i \in 1..Len(requests) : Requester(i)
    \/ \E w \in 1..Len(workers) : Worker(w)

SpecShaper == InitShaper /\ [][NextShaper]_vars

\* The Go scheduler runs every goroutine that can take a step.
FairShaper ==
    /\ SpecShaper
    /\ \A i \in 1..MaxRequests :
          WF_vars(i \in 1..Len(requests) /\ Requester(i))
    /\ \A w \in 1..MaxWorkers :
          WF_vars(w \in 1..Len(workers) /\ Worker(w))

\* C27: with the shaper enabled, every request that enters rest()
\* eventually returns with the result computed for it by a worker, in every
\* interleaving of the requesting goroutine and the worker.
C27_EveryRequestReturns ==
    \A i \in 1..MaxRequests :
        (Len(requests) >= i) ~>
            /\ Len(requests) >= i
            /\ requests[i].pc = "returned"
            /\ requests[i].ret = DoResult(i)

\* C27, its reason: the worker's Signal is never issued before the
\* requester is waiting.
C27_SignalFindsTheRequesterWaiting ==
    \A w \in 1..Len(workers) :
        workers[w].pc = "signal" => requests[workers[w].s].pc = "parked"

\* A request that has returned has the result computed for it.
C27_ReturnedResultIsOwn ==
    \A i \in 1..Len(requests) :
        requests[i].pc = "returned" => requests[i].ret = DoResult(i)

====
